---- MODULE Spec2Model ----
(***************************************************************************)
(* A model of the vcpkg recipe interpreter of                              *)
(* hermeto/core/package_managers/vcpkg/cmake_processor.py:                 *)
(*   - the dependency walker find_deps (specification SpecDeps),           *)
(*   - the pruner, the dispatcher and the interpretation driver            *)
(*     (specification Spec).                                               *)
(***************************************************************************)
EXTENDS Integers, Sequences, FiniteSets, TLC

(***************************************************************************)
(* Bounds of the model.                                                    *)
(***************************************************************************)
\* the total number of dependency declarations in the ports tree
MaxDeclarations == 3
\* the deepest call stack of find_deps the model follows
MaxDepth == 6

(***************************************************************************)
(* Generic helpers on sequences.                                           *)
(***************************************************************************)
Range(s) == {s[i] : i \in DOMAIN s}

RECURSIVE Flatten(_)
Flatten(ss) == IF ss = <<>> THEN <<>> ELSE Head(ss) \o Flatten(Tail(ss))

RECURSIVE SumLen(_)
SumLen(ss) == IF ss = <<>> THEN 0 ELSE Len(Head(ss)) + SumLen(Tail(ss))

(***************************************************************************)
(* The dependency walker: vcpkg.json manifests and find_deps.              *)
(***************************************************************************)
VARIABLES
    ports,      \* the ports tree: port name -> its vcpkg.json (or no file)
    stack,      \* the call stack of find_deps, innermost frame last
    seen,       \* the `seen` set shared by all the calls of one traversal
    result,     \* the value the root call returned
    dpc         \* "setup" | "walking" | "done" | "raised"

depVars == <<ports, stack, seen, result, dpc>>

\* The state of the interpretation driver reify_single_port.
VARIABLES
    portfile,            \* get_parsed_portfile(portname): the parsed nodes
    available_commands,  \* the instances the dispatcher constructed
    environemnt,         \* the environment: variable name -> string
    ip,                  \* the position of the loop in available_commands
    out,                 \* "[]" until an apply returns a true value, then "True"
    pc,                  \* "start" | "converted" | "interpreting" | "returned" | "raised"
    error,               \* the exception that left the driver, and where from
    applied,             \* the log of the do_special_magic calls made
    fetched,             \* the calls of urlretrieve made
    executed,            \* the processes run
    tmpdir,              \* whether /tmp/foo was made
    port_json,           \* the vcpkg.json of the port, as the last call found it
    retrievals,          \* the outcome of each call of urlretrieve of this run
    run,                 \* 1 in the first call of the driver, 2 in a second one
    first                \* what the first call of the driver ended with

driverVars ==
    <<portfile, available_commands, environemnt, ip, out, pc, error, applied,
      fetched, executed, tmpdir, port_json, retrievals, run, first>>

\* The state of one call of Value.reify.
VARIABLES
    self_contents,  \* self.contents of the Value
    the_context,    \* the `context` argument: None, or a dict
    reifying,       \* the local to_reify of the loop
    taken_from,     \* <<name>> when to_reify is the very object context[name]
    turns,          \* the parity of the number of turns of the loop made
    value,          \* what the call returned
    vpc             \* "idle" | "called" | "looping" | "returned" | "raised"

valueVars == <<self_contents, the_context, reifying, taken_from, turns, value, vpc>>

\* The state of one call of each checker of curly brackets.
VARIABLES
    checked_strn,   \* the string the checkers are called with
    balanced,       \* what cbrackets_are_balanced_in returned, "none" before
    well_formed     \* what scbrackets_sequence_is_correct_in returned or raised

checkVars == <<checked_strn, balanced, well_formed>>

vars == <<depVars, driverVars, valueVars, checkVars>>

\* no checker has been called
CheckIdle ==
    /\ checked_strn = <<>>
    /\ balanced = "none"
    /\ well_formed = "none"

\* no call of Value.reify is under way
ValueIdle ==
    /\ self_contents = <<>>
    /\ the_context = [given |-> FALSE, dict |-> <<>>]
    /\ reifying = <<>>
    /\ taken_from = <<>>
    /\ turns = 0
    /\ value = [t |-> "None", s |-> <<>>, items |-> <<>>]
    /\ vpc = "idle"

NoError == [exc |-> "none", cls |-> "", at |-> ""]

\* no call of the driver has ended yet
NoRun ==
    [pc |-> "", error |-> NoError, out |-> "", environemnt |-> <<>>,
     fetched |-> <<>>, retrievals |-> <<>>]

\* the driver before reify_single_port is called
DriverIdle ==
    /\ portfile = <<>>
    /\ available_commands = <<>>
    /\ environemnt = <<>>
    /\ ip = 0
    /\ out = "[]"
    /\ pc = "idle"
    /\ error = NoError
    /\ applied = <<>>
    /\ fetched = <<>>
    /\ executed = <<>>
    /\ tmpdir = FALSE
    /\ port_json = [exists |-> FALSE, data |-> <<>>]
    /\ retrievals = <<>>
    /\ run = 1
    /\ first = NoRun

PortNames == {"P", "Q", "R"}

\* the package find_deps is called for with root=True
RootPort == "P"

\* A raw entry of a "dependencies" list: a bare name, or an object with a
\* "name" field.
BareDep(n) == [type |-> "str", value |-> n]
ObjectDep(n) == [type |-> "dict", name |-> n]
RawDeps == {BareDep(n) : n \in PortNames} \cup {ObjectDep(n) : n \in PortNames}

\* raw_dep["name"] succeeds on an object; on a string it raises TypeError and
\* the string itself is the name.
dependency_name(raw_dep) ==
    IF raw_dep.type = "dict" THEN raw_dep.name ELSE raw_dep.value

\* A vcpkg.json: the "dependencies" list and the "features", each feature
\* with a "dependencies" list of its own, in the order of the file.
NoManifest == [exists |-> FALSE, dependencies |-> <<>>, features |-> <<>>]
EmptyManifest == [exists |-> TRUE, dependencies |-> <<>>, features |-> <<>>]

Declarations(m) == Len(m.dependencies) + SumLen(m.features)

RECURSIVE TotalDeclarations(_, _)
TotalDeclarations(tree, names) ==
    IF names = {} THEN 0
    ELSE LET p == CHOOSE x \in names : TRUE
         IN Declarations(tree[p]) + TotalDeclarations(tree, names \ {p})

\* the names a tree's manifests mention, and the root
Mentioned(tree) ==
    {RootPort} \cup
    UNION {{dependency_name(d) : d \in Range(tree[p].dependencies)
                                       \cup Range(Flatten(tree[p].features))}
           : p \in PortNames}

\* The trees before any dependency is declared: each port either has an empty
\* vcpkg.json or no file at all.
BareTrees ==
    {[p \in PortNames |-> IF p \in missing THEN NoManifest ELSE EmptyManifest]
     : missing \in SUBSET PortNames}

\* The ports tree is written before the traversal starts: one more declaration
\* in the manifest of a port that is read at all, at the end of its
\* "dependencies", in a new feature, or at the end of its last feature.
\* Q and R are interchangeable, so of two trees that differ only by swapping
\* them the one that mentions Q first is built.
DeclareDependency ==
    /\ dpc = "setup"
    /\ TotalDeclarations(ports, PortNames) < MaxDeclarations
    /\ \E p \in {q \in Mentioned(ports) : ports[q].exists}, d \in RawDeps :
          LET m == ports[p] IN
          /\ dependency_name(d) = "R" => "Q" \in Mentioned(ports)
          /\ \/ ports' = [ports EXCEPT ![p].dependencies = Append(m.dependencies, d)]
             \/ ports' = [ports EXCEPT ![p].features = Append(m.features, <<d>>)]
             \/ /\ m.features # <<>>
                /\ ports' = [ports EXCEPT ![p].features[Len(m.features)] =
                                              Append(m.features[Len(m.features)], d)]
    /\ UNCHANGED <<stack, seen, result, dpc>>
    /\ UNCHANGED <<driverVars, valueVars, checkVars>>

\* direct_deps and feature_deps of one call: the names that are neither the
\* port's own name nor in `seen` (as it was when the call began).
AdmittedWithoutSeen(names, port, seenNow) ==
    SelectSeq(names, LAMBDA dn : dn # port)
Admitted(names, port, seenNow) ==
    SelectSeq(names, LAMBDA dn : dn # port /\ dn \notin seenNow)

NamesOf(raw) == [i \in DOMAIN raw |-> dependency_name(raw[i])]

direct_deps(m, port, seenNow) == Admitted(NamesOf(m.dependencies), port, seenNow)

feature_deps(m, port, seenNow) ==
    Admitted(NamesOf(Flatten(m.features)), port, seenNow)

\* The frame of a call that has read its manifest: its own lists, the
\* children it still has to recurse into, and other_deps so far.
Frame(port, root, seenNow) ==
    LET own == direct_deps(ports[port], port, seenNow)
               \o feature_deps(ports[port], port, seenNow)
    IN [port |-> port, root |-> root, own |-> own, todo |-> own, other |-> <<>>]

\* find_deps(port_path) of the root: reads the manifest, builds the lists,
\* updates seen.
FindDepsRoot ==
    /\ dpc = "setup"
    /\ IF ~ports[RootPort].exists
       THEN /\ dpc' = "raised"
            /\ UNCHANGED <<stack, seen>>
       ELSE LET f == Frame(RootPort, TRUE, {})
            IN /\ stack' = <<f>>
               /\ seen' = Range(f.own)
               /\ dpc' = "walking"
    /\ UNCHANGED <<ports, result>>
    /\ UNCHANGED <<driverVars, valueVars, checkVars>>

\* the next recursive call of the innermost frame
FindDepsRecurse ==
    /\ dpc = "walking"
    /\ stack # <<>>
    /\ Len(stack) < MaxDepth
    /\ stack[Len(stack)].todo # <<>>
    /\ LET d == Head(stack[Len(stack)].todo)
       IN IF ~ports[d].exists
          THEN /\ dpc' = "raised"
               /\ UNCHANGED <<stack, seen>>
          ELSE LET f == Frame(d, FALSE, seen)
               IN /\ stack' = Append(stack, f)
                  /\ seen' = seen \cup Range(f.own)
                  /\ dpc' = dpc
    /\ UNCHANGED <<ports, result>>
    /\ UNCHANGED <<driverVars, valueVars, checkVars>>

\* what a call returns: direct_deps + feature_deps + other_deps
OwnDepsOnly(f) == f.own
ReturnedList(f) == f.own \o f.other

\* a call that is not the root returns its list to its caller
FindDepsReturn ==
    /\ dpc = "walking"
    /\ Len(stack) > 1
    /\ stack[Len(stack)].todo = <<>>
    /\ LET f == stack[Len(stack)]
           n == Len(stack) - 1
       IN stack' = [SubSeq(stack, 1, n) EXCEPT
                       ![n].todo = Tail(@),
                       ![n].other = @ \o ReturnedList(f)]
    /\ UNCHANGED <<ports, seen, result, dpc>>
    /\ UNCHANGED <<driverVars, valueVars, checkVars>>

\* the root returns the set of all it collected
FindDepsFinish ==
    /\ dpc = "walking"
    /\ Len(stack) = 1
    /\ stack[1].todo = <<>>
    /\ result' = Range(ReturnedList(stack[1]))
    /\ stack' = <<>>
    /\ dpc' = "done"
    /\ UNCHANGED <<ports, seen>>
    /\ UNCHANGED <<driverVars, valueVars, checkVars>>

InitDeps ==
    /\ ports \in BareTrees
    /\ stack = <<>>
    /\ seen = {}
    /\ result = {}
    /\ dpc = "setup"
    /\ DriverIdle
    /\ ValueIdle
    /\ CheckIdle

\* the walker before find_deps is called
WalkerIdle ==
    /\ ports = [p \in PortNames |-> NoManifest]
    /\ stack = <<>>
    /\ seen = {}
    /\ result = {}
    /\ dpc = "idle"

NextDeps ==
    \/ DeclareDependency
    \/ FindDepsRoot
    \/ FindDepsRecurse
    \/ FindDepsReturn
    \/ FindDepsFinish

SpecDeps == InitDeps /\ [][NextDeps]_vars

FairSpecDeps == SpecDeps /\ WF_vars(NextDeps)

(***************************************************************************)
(* Strings.  A string is a sequence of symbols: the characters             *)
(*   $  {  }  /  _  \  (                                                   *)
(* and words, each a run of letters and digits that the recipes use only   *)
(* as a whole (a name, a version, a keyword).                              *)
(***************************************************************************)
\* "${" in strn
HasMarker(strn) ==
    \E i \in 1..(Len(strn) - 1) : strn[i] = "$" /\ strn[i + 1] = "{"

\* strn.replace(old, new)
RECURSIVE StrReplace(_, _, _)
StrReplace(strn, old, new) ==
    IF old = <<>>
    THEN IF strn = <<>> THEN new
         ELSE new \o <<Head(strn)>> \o StrReplace(Tail(strn), old, new)
    ELSE IF Len(strn) < Len(old) THEN strn
    ELSE IF SubSeq(strn, 1, Len(old)) = old
         THEN new \o StrReplace(SubSeq(strn, Len(old) + 1, Len(strn)), old, new)
         ELSE <<Head(strn)>> \o StrReplace(Tail(strn), old, new)

\* strn.split("/")
RECURSIVE StrSplit(_, _)
StrSplit(strn, piece) ==
    IF strn = <<>> THEN <<piece>>
    ELSE IF Head(strn) = "/" THEN <<piece>> \o StrSplit(Tail(strn), <<>>)
    ELSE StrSplit(Tail(strn), Append(piece, Head(strn)))

\* sep.join(pieces)
RECURSIVE StrJoin(_, _)
StrJoin(pieces, sep) ==
    IF pieces = <<>> THEN <<>>
    ELSE IF Len(pieces) = 1 THEN pieces[1]
    ELSE pieces[1] \o sep \o StrJoin(Tail(pieces), sep)

\* the first position at which `sub` occurs in strn, 0 when there is none
FindFirst(strn, sub) ==
    LET at == {i \in 1..(Len(strn) - Len(sub) + 1) :
                  SubSeq(strn, i, i + Len(sub) - 1) = sub}
    IN IF at = {} THEN 0 ELSE CHOOSE i \in at : \A j \in at : i <= j

(***************************************************************************)
(* The substitution engine.                                                *)
(***************************************************************************)
\* the most steps of the loop of Value.reify the model follows
MaxReifySteps == 4

\* first_innermost_variable: the name between the last "${" seen and the
\* first "}"; ValueError("Unbalanced string") when the string ends first.
RECURSIVE first_innermost_scan(_, _)
first_innermost_scan(lst, name) ==
    IF lst = <<>> THEN [exc |-> "ValueError", val |-> <<>>]
    ELSE IF Head(lst) = "$" /\ Len(lst) >= 2 /\ lst[2] = "{"
         THEN first_innermost_scan(SubSeq(lst, 3, Len(lst)), <<>>)
    ELSE IF Head(lst) = "}" THEN [exc |-> "none", val |-> name]
    ELSE first_innermost_scan(Tail(lst), Append(name, Head(lst)))

\* the name between the first "${" and the first "}" after it: the outermost
\* variable, not the innermost
first_outermost_variable(strn) ==
    LET opens == {i \in 1..(Len(strn) - 1) : strn[i] = "$" /\ strn[i + 1] = "{"}
        open == IF opens = {} THEN 0 ELSE CHOOSE i \in opens : \A k \in opens : i <= k
        closes == {j \in DOMAIN strn : strn[j] = "}" /\ j > open + 1}
    IN IF closes = {} THEN [exc |-> "ValueError", val |-> <<>>]
       ELSE [exc |-> "none",
             val |-> SubSeq(strn, open + 2,
                            (CHOOSE j \in closes : \A k \in closes : j <= k) - 1)]

first_innermost_variable(strn) == first_innermost_scan(strn, <<>>)

\* cbrackets_are_balanced_in: as many "{" as "}"
cbrackets_are_balanced_in(strn) ==
    IF Cardinality({i \in DOMAIN strn : strn[i] = "{"})
           # Cardinality({i \in DOMAIN strn : strn[i] = "}"})
    THEN "False"
    ELSE "True"

\* scbrackets_sequence_is_correct_in: "True", "False", or "IndexError" when
\* the last character is "$" (strn[pos+1] is read past the end).
RECURSIVE scbrackets_scan(_, _, _)
scbrackets_scan(strn, pos, balance) ==
    IF pos > Len(strn) THEN (IF balance = 0 THEN "True" ELSE "False")
    ELSE IF strn[pos] = "$" /\ pos = Len(strn) THEN "IndexError"
    ELSE LET opened == IF strn[pos] = "$" /\ strn[pos + 1] = "{"
                       THEN balance + 1 ELSE balance
             closed == IF strn[pos] = "}" /\ opened # 0 THEN opened - 1 ELSE opened
         IN IF closed < 0 THEN "False" ELSE scbrackets_scan(strn, pos + 1, closed)

\* scbrackets_sequence_is_correct_in, were it to count the brackets only
scbrackets_counted(strn) == cbrackets_are_balanced_in(strn)
scbrackets_sequence_is_correct_in(strn) == scbrackets_scan(strn, 1, 0)

\* contains_variables: the three tests are made left to right
contains_variables(strn) ==
    IF ~HasMarker(strn) THEN "False"
    ELSE IF "}" \notin Range(strn) THEN "False"
    ELSE scbrackets_sequence_is_correct_in(strn)

\* context.get(name, ""): a name that is not set reads as the empty string
LookupOrEmpty(context, name) ==
    [found |-> TRUE, val |-> IF name \in DOMAIN context THEN context[name] ELSE <<>>]
\* context.get(name, ReifyGuard)
Lookup(context, name) ==
    IF name \in DOMAIN context
    THEN [found |-> TRUE, val |-> context[name]]
    ELSE [found |-> FALSE, val |-> <<>>]

\* substitute: re.sub of the first "${what}" by to_what.  `what` is used as a
\* pattern: a "$" in it is an end-of-string anchor and matches nothing here.
\* `same` says that the very string given is returned (no match, or the guard);
\* `whole` that the match is the whole of in_what, and then re.sub returns the
\* very string to_what.
substitute(what, to_what, in_what) ==
    LET at == IF "$" \in Range(what) THEN 0
              ELSE FindFirst(in_what, <<"$", "{">> \o what \o <<"}">>)
    IN IF ~to_what.found \/ at = 0
       THEN [same |-> TRUE, whole |-> FALSE, val |-> in_what]
       ELSE [same |-> FALSE,
             whole |-> Len(in_what) = Len(what) + 3,
             val |-> SubSeq(in_what, 1, at - 1) \o to_what.val
                     \o SubSeq(in_what, at + Len(what) + 3, Len(in_what))]

\* `to_reify is to_reify_old`, for r the result of substitute(what, ...) and
\* `origin` telling which value of the context to_reify_old is: the string
\* given came back, or the whole of it was replaced by the value it already was
IsOld(r, what, origin) == r.same \/ (r.whole /\ origin = <<what>>)

\* which value of the context the result r of substitute(what, ...) is
OriginOf(r, what) == IF r.whole THEN <<what>> ELSE <<>>

(***************************************************************************)
(* Field values: a plain str, a Value (a string that may still hold        *)
(* variables), None, or a list of those.                                   *)
(***************************************************************************)
Str(s) == [t |-> "str", s |-> s, items |-> <<>>]
Val(s) == [t |-> "Value", s |-> s, items |-> <<>>]
None == [t |-> "None", s |-> <<>>, items |-> <<>>]
List(items) == [t |-> "list", s |-> <<>>, items |-> items]

Returned(v) == [exc |-> "none", v |-> v]
Raised(e) == [exc |-> e, v |-> None]

\* Value(contents).reify() with no context, were it to return self always
ReifyBareReturningSelf(contents) == Returned(Val(contents))

\* Value(contents).reify() with no context
ReifyBare(contents) ==
    LET reified(c) ==
            IF c = "IndexError" THEN Raised("IndexError")
            ELSE IF c = "True" THEN Returned(Val(contents))
            ELSE Returned(Str(contents))
    IN reified(contains_variables(contents))

\* the loop of Value.reify(context); "Unfinished" when the model's step bound
\* is reached with a marker still in the string
RECURSIVE ReifyLoop(_, _, _, _)
ReifyLoop(to_reify, origin, context, steps) ==
    IF ~HasMarker(to_reify) THEN Returned(Str(to_reify))
    ELSE IF steps = 0 THEN Raised("Unfinished")
    ELSE LET substituted(r, what) ==
                 IF IsOld(r, what, origin) THEN Returned(Val(to_reify))
                 ELSE ReifyLoop(r.val, OriginOf(r, what), context, steps - 1)
             found(name) ==
                 IF name.exc # "none" THEN Raised(name.exc)
                 ELSE substituted(substitute(name.val, Lookup(context, name.val),
                                             to_reify),
                                  name.val)
         IN found(first_innermost_variable(to_reify))

\* Value(contents).reify(context)
ReifyIn(contents, context) == ReifyLoop(contents, <<>>, context, MaxReifySteps)

\* v.reify(context) if isinstance(v, Value) else v
ReifyField(v, context) ==
    IF v.t = "Value" THEN ReifyIn(v.s, context) ELSE Returned(v)

(***************************************************************************)
(* One call of Value.reify, followed turn by turn of its loop.             *)
(***************************************************************************)
\* the longest string of symbols a call is made on
MaxValueLen == 4

ValueSymbols == {"$", "{", "}", "a"}

\* strings with nested variables, from the docstrings and the tests
NestedValues ==
    { <<"$", "{", "a", "$", "{", "b", "}", "c", "}">>,
      <<"$", "{", "a", "$", "{", "b", "}", "$", "{", "a", "}", "c", "}">>,
      <<"a", "}", "$", "{", "b", "}">>,
      <<"$", "{", "a", "}", "$", "{", "b", "}">>,
      <<"a", "$", "{", "a", "}">>,
      <<"}", "$", "{", "a", "}">>,
      <<"$", "{", "}", "$", "{", "}">>,
      <<"$", "{", "}", "}", "$", "{">> }

ValueStrings ==
    UNION {[1..k -> ValueSymbols] : k \in 0..MaxValueLen} \cup NestedValues

\* no context, or a dict; in the last two a is bound to a string that holds a,
\* and a and b are bound to each other
NoContext == [given |-> FALSE, dict |-> <<>>]
Context(dict) == [given |-> TRUE, dict |-> dict]
Contexts ==
    { NoContext,
      Context(<<>>),
      Context((<<"a">> :> <<"X">>) @@ (<<>> :> <<"a">>)),
      Context((<<"b">> :> <<"X">>) @@ (<<"a", "X", "c">> :> <<"Y">>)
                  @@ (<<"a">> :> <<"}">>)),
      Context((<<"a">> :> <<"$", "{", "a", "}">>)),
      Context((<<"a">> :> <<"$", "{", "b", "}">>) @@ (<<"b">> :> <<"$", "{", "a", "}">>)) }

ValueReturn(v) == value' = v /\ vpc' = "returned"
ValueRaise == value' = value /\ vpc' = "raised"

\* reify(): `if context is None`
ReifyWithoutContext ==
    /\ vpc = "called"
    /\ ~the_context.given
    /\ LET done(r) == IF r.exc = "none" THEN ValueReturn(r.v) ELSE ValueRaise
       IN done(ReifyBare(self_contents))
    /\ UNCHANGED <<self_contents, the_context, reifying, taken_from, turns>>
    /\ UNCHANGED <<depVars, driverVars, checkVars>>

\* reify(context): `if "${" not in self.contents`, else to_reify = self.contents
ReifyWithContext ==
    /\ vpc = "called"
    /\ the_context.given
    /\ IF ~HasMarker(self_contents)
       THEN ValueReturn(Str(self_contents)) /\ UNCHANGED reifying
       ELSE reifying' = self_contents /\ vpc' = "looping" /\ UNCHANGED value
    /\ UNCHANGED <<self_contents, the_context, taken_from, turns>>
    /\ UNCHANGED <<depVars, driverVars, checkVars>>

\* one turn of `while "${" in to_reify`; a turn that goes on is a step of the
\* call even when the string it yields equals the one it had
ReifyStep ==
    /\ vpc = "looping"
    /\ HasMarker(reifying)
    /\ LET substituted(r, what) ==
               IF IsOld(r, what, taken_from)
               THEN ValueReturn(Val(reifying))
                        /\ UNCHANGED <<reifying, taken_from, turns>>
               ELSE /\ reifying' = r.val
                    /\ taken_from' = OriginOf(r, what)
                    /\ turns' = 1 - turns
                    /\ UNCHANGED <<value, vpc>>
           found(name) ==
               IF name.exc # "none"
               THEN ValueRaise /\ UNCHANGED <<reifying, taken_from, turns>>
               ELSE substituted(substitute(name.val, Lookup(the_context.dict, name.val),
                                           reifying),
                                name.val)
       IN found(first_innermost_variable(reifying))
    /\ UNCHANGED <<self_contents, the_context>>
    /\ UNCHANGED <<depVars, driverVars, checkVars>>

\* the loop ends: return to_reify
ReifyReturn ==
    /\ vpc = "looping"
    /\ ~HasMarker(reifying)
    /\ ValueReturn(Str(reifying))
    /\ UNCHANGED <<self_contents, the_context, reifying, taken_from, turns>>
    /\ UNCHANGED <<depVars, driverVars, checkVars>>

InitValue ==
    /\ self_contents \in ValueStrings
    /\ the_context \in Contexts
    /\ reifying = <<>>
    /\ taken_from = <<>>
    /\ turns = 0
    /\ value = None
    /\ vpc = "called"
    /\ WalkerIdle
    /\ DriverIdle
    /\ CheckIdle

NextValue ==
    \/ ReifyWithoutContext
    \/ ReifyWithContext
    \/ ReifyStep
    \/ ReifyReturn

SpecValue == InitValue /\ [][NextValue]_vars

\* a call of Value.reify that is under way goes on: nothing suspends it
FairSpecValue == SpecValue /\ WF_vars(NextValue)

(***************************************************************************)
(* The checkers of curly brackets, each called once on a string.           *)
(***************************************************************************)
\* cbrackets_are_balanced_in(strn)
CheckBalanced ==
    /\ balanced = "none"
    /\ balanced' = cbrackets_are_balanced_in(checked_strn)
    /\ UNCHANGED <<checked_strn, well_formed>>
    /\ UNCHANGED <<depVars, driverVars, valueVars>>

\* scbrackets_sequence_is_correct_in(strn)
CheckWellFormed ==
    /\ well_formed = "none"
    /\ well_formed' = scbrackets_sequence_is_correct_in(checked_strn)
    /\ UNCHANGED <<checked_strn, balanced>>
    /\ UNCHANGED <<depVars, driverVars, valueVars>>

InitBrackets ==
    /\ checked_strn \in ValueStrings
    /\ balanced = "none"
    /\ well_formed = "none"
    /\ WalkerIdle
    /\ DriverIdle
    /\ ValueIdle

NextBrackets ==
    \/ CheckBalanced
    \/ CheckWellFormed

SpecBrackets == InitBrackets /\ [][NextBrackets]_vars

(***************************************************************************)
(* Command nodes (the parser's output) and the registry of variants.       *)
(***************************************************************************)
\* str.lower() on the identifiers and class names of the model
Lower ==
    [ set |-> "set", SET |-> "set", Set |-> "set",
      string |-> "string", STRING |-> "string",
      message |-> "message",
      vcpkg_from_github |-> "vcpkg_from_github",
      VCPKG_FROM_GITHUB |-> "vcpkg_from_github",
      Vcpkg_From_GitHub |-> "vcpkg_from_github",
      vcpkg_from_gitlab |-> "vcpkg_from_gitlab",
      VCPKG_FROM_GITLAB |-> "vcpkg_from_gitlab",
      vcpkg_from_bitbucket |-> "vcpkg_from_bitbucket",
      VCPKG_FROM_BITBUCKET |-> "vcpkg_from_bitbucket",
      vcpkg_get_windows_sdk |-> "vcpkg_get_windows_sdk",
      VCPKG_GET_WINDOWS_SDK |-> "vcpkg_get_windows_sdk",
      ignition_modular_library |-> "ignition_modular_library",
      IGNITION_MODULAR_LIBRARY |-> "ignition_modular_library",
      qt_install_submodule |-> "qt_install_submodule",
      QT_INSTALL_SUBMODULE |-> "qt_install_submodule",
      qt_submodule_installation |-> "qt_submodule_installation",
      QT_SUBMODULE_INSTALLATION |-> "qt_submodule_installation",
      vcpkg_download_distfile |-> "vcpkg_download_distfile",
      VCPKG_DOWNLOAD_DISTFILE |-> "vcpkg_download_distfile",
      vcpkg_from_git |-> "vcpkg_from_git",
      VCPKG_FROM_GIT |-> "vcpkg_from_git",
      vcpkg_from_sourceforge |-> "vcpkg_from_sourceforge",
      VCPKG_FROM_SOURCEFORGE |-> "vcpkg_from_sourceforge" ]

\* A node with an identifier and arguments, and a node without an
\* `identifier` attribute (a comment, a blank line).
Command(identifier, args) ==
    [command |-> TRUE, identifier |-> identifier, args |-> args]
Comment == [command |-> FALSE, identifier |-> "", args |-> <<>>]

\* reg.registry, in the order the classes are registered
Registry ==
    << "VCPKG_FROM_GITHUB", "VCPKG_FROM_GITLAB", "VCPKG_FROM_BITBUCKET",
       "VCPKG_GET_WINDOWS_SDK", "IGNITION_MODULAR_LIBRARY",
       "QT_INSTALL_SUBMODULE", "QT_SUBMODULE_INSTALLATION",
       "VCPKG_DOWNLOAD_DISTFILE", "VCPKG_FROM_GIT", "VCPKG_FROM_SOURCEFORGE",
       "SET", "STRING" >>

\* cls.__dataclass_fields__, in the order of declaration
Fields ==
    [ VCPKG_FROM_GITHUB |->
        <<"OUT_SOURCE_PATH", "REPO", "REF", "SHA512", "HEAD_REF", "GITHUB_HOST",
         "AUTHORIZATION_TOKEN", "FILE_DISAMBIGUATOR", "PATCHES">>,
      VCPKG_FROM_GITLAB |->
        <<"OUT_SOURCE_PATH", "REPO", "REF", "SHA512", "HEAD_REF", "GITLAB_URL",
         "AUTHORIZATION_TOKEN", "FILE_DISAMBIGUATOR", "PATCHES">>,
      VCPKG_FROM_BITBUCKET |->
        <<"OUT_SOURCE_PATH", "REPO", "REF", "SHA512", "HEAD_REF", "PATCHES">>,
      VCPKG_GET_WINDOWS_SDK |-> <<"WINDOWS_SDK">>,
      IGNITION_MODULAR_LIBRARY |-> <<>>,
      QT_INSTALL_SUBMODULE |-> <<>>,
      QT_SUBMODULE_INSTALLATION |-> <<>>,
      VCPKG_DOWNLOAD_DISTFILE |-> <<"ARCHIVE", "URLS", "FILENAME", "SHA512">>,
      VCPKG_FROM_GIT |->
        <<"OUT_SOURCE_PATH", "URL", "REF", "FETCH_REF", "HEAD_REF", "TAG", "LFS",
         "PATCHES">>,
      VCPKG_FROM_SOURCEFORGE |->
        <<"OUT_SOURCE_PATH", "REPO", "REF", "SHA512", "FILENAME",
         "WORKING_DIRECTORY", "PATCHES">>,
      SET |-> <<"What", "ToWhat">>,
      STRING |-> <<"cmd", "What", "WithWhat", "ToWhat", "InWhat", "subcmd">> ]

FieldNames(cls) == Range(Fields[cls])

\* the fields without a default: cls(**initializer) raises TypeError when one
\* of them is not given
RequiredFields ==
    [ VCPKG_FROM_GITHUB |-> {"OUT_SOURCE_PATH", "REPO", "REF", "SHA512"},
      VCPKG_FROM_GITLAB |-> {"OUT_SOURCE_PATH", "REPO", "REF", "SHA512"},
      VCPKG_FROM_BITBUCKET |-> {"OUT_SOURCE_PATH", "REPO", "REF", "SHA512"},
      VCPKG_GET_WINDOWS_SDK |-> {},
      IGNITION_MODULAR_LIBRARY |-> {},
      QT_INSTALL_SUBMODULE |-> {},
      QT_SUBMODULE_INSTALLATION |-> {},
      VCPKG_DOWNLOAD_DISTFILE |-> {"ARCHIVE", "URLS", "FILENAME", "SHA512"},
      VCPKG_FROM_GIT |-> {"OUT_SOURCE_PATH", "URL", "REF"},
      VCPKG_FROM_SOURCEFORGE |-> {"OUT_SOURCE_PATH", "REPO"},
      SET |-> {"What", "ToWhat"},
      STRING |-> {"cmd", "What", "WithWhat", "ToWhat", "InWhat"} ]

GitForges ==
    {"VCPKG_FROM_GITHUB", "VCPKG_FROM_GITLAB", "VCPKG_FROM_BITBUCKET",
     "VCPKG_FROM_GIT", "VCPKG_FROM_SOURCEFORGE"}

Stubs ==
    {"VCPKG_GET_WINDOWS_SDK", "IGNITION_MODULAR_LIBRARY", "QT_INSTALL_SUBMODULE",
     "QT_SUBMODULE_INSTALLATION"}

\* An instance of a variant: its class and the value of every field.
Instance(cls, fields) == [cls |-> cls, fields |-> fields]
NoInstance == [cls |-> "", fields |-> <<>>]

Constructed(inst) == [exc |-> "none", inst |-> inst]
NotConstructed(e) == [exc |-> e, inst |-> NoInstance]

\* cls(**initializer): the fields not given take their default, None
NewInstance(cls, initializer) ==
    IF ~(RequiredFields[cls] \subseteq DOMAIN initializer)
    THEN NotConstructed("TypeError")
    ELSE Constructed(Instance(cls,
             [f \in FieldNames(cls) |->
                 IF f \in DOMAIN initializer THEN initializer[f] ELSE None]))

\* arg.value in cls.__dataclass_fields__.keys()
IsFieldName(cls, token) == Len(token) = 1 /\ token[1] \in FieldNames(cls)

\* the tokens up to the next field name, each Value(...).reify()'d
RECURSIVE CollectList(_, _, _)
CollectList(cls, args, items) ==
    IF args = <<>> \/ IsFieldName(cls, Head(args))
    THEN [exc |-> "none", items |-> items, rest |-> args]
    ELSE LET collected(v) ==
                 IF v.exc # "none" THEN [exc |-> v.exc, items |-> <<>>, rest |-> <<>>]
                 ELSE CollectList(cls, Tail(args), Append(items, v.v))
         IN collected(ReifyBare(Head(args)))

\* the while loop of BaseGitForge.from_command
RECURSIVE ForgeInitializer(_, _, _)
ForgeInitializer(cls, args, initializer) ==
    IF args = <<>> THEN [exc |-> "none", initializer |-> initializer]
    ELSE LET arg == Head(args)
             rest == Tail(args)
             scalar(v) ==
                 IF v.exc # "none" THEN [exc |-> v.exc, initializer |-> <<>>]
                 ELSE ForgeInitializer(cls, Tail(rest), (arg[1] :> v.v) @@ initializer)
             list(l) ==
                 IF l.exc # "none" THEN [exc |-> l.exc, initializer |-> <<>>]
                 ELSE ForgeInitializer(cls, l.rest,
                                       (arg[1] :> List(l.items)) @@ initializer)
         IN IF ~IsFieldName(cls, arg) THEN ForgeInitializer(cls, rest, initializer)
            ELSE IF (rest = <<>> \/ IsFieldName(cls, Head(rest))) /\ arg[1] # "PATCHES"
                 THEN [exc |-> "ValueError", initializer |-> <<>>]
            ELSE IF arg[1] # "PATCHES" THEN scalar(ReifyBare(Head(rest)))
            ELSE list(CollectList(cls, rest, <<>>))

\* the while loop of VCPKG_DOWNLOAD_DISTFILE.from_command
RECURSIVE DistfileInitializer(_, _, _)
DistfileInitializer(cls, args, initializer) ==
    IF args = <<>> THEN [exc |-> "none", initializer |-> initializer]
    ELSE LET arg == Head(args)
             rest == Tail(args)
             scalar(v) ==
                 IF v.exc # "none" THEN [exc |-> v.exc, initializer |-> <<>>]
                 ELSE DistfileInitializer(cls, Tail(rest),
                                          (arg[1] :> v.v) @@ initializer)
             list(l) ==
                 IF l.exc # "none" THEN [exc |-> l.exc, initializer |-> <<>>]
                 ELSE DistfileInitializer(cls, l.rest,
                                          (arg[1] :> List(l.items)) @@ initializer)
         IN IF ~IsFieldName(cls, arg) THEN DistfileInitializer(cls, rest, initializer)
            ELSE IF rest = <<>> \/ (IsFieldName(cls, Head(rest)) /\ arg[1] # "ARCHIVE")
                 THEN [exc |-> "ValueError", initializer |-> <<>>]
            ELSE IF arg[1] = "ARCHIVE"
                 THEN DistfileInitializer(cls, rest, initializer)
            ELSE IF arg[1] # "URLS" THEN scalar(ReifyBare(Head(rest)))
            ELSE list(CollectList(cls, rest, <<>>))

\* STRING.from_command after the identifier check
StringFromArgs(args) ==
    LET new(cmd, subcmd, What, WithWhat, ToWhat, InWhat) ==
            Constructed(Instance("STRING",
                [cmd |-> cmd, subcmd |-> subcmd, What |-> What,
                 WithWhat |-> WithWhat, ToWhat |-> ToWhat, InWhat |-> InWhat]))
    IN IF Len(args) = 5
       THEN IF args[1] = <<"SUBSTRING">>
            THEN new(Str(args[1]), None, Str(args[3]), Str(args[4]), Str(args[5]),
                     Val(args[2]))
            ELSE IF args[1] = <<"REPLACE">>
            THEN new(Str(args[1]), None, Str(args[2]), Str(args[3]), Str(args[4]),
                     Val(args[5]))
            ELSE IF args[2] = <<"MATCH">>
            THEN new(Str(args[1]), Str(args[2]), Str(args[3]), None, Str(args[4]),
                     Val(args[5]))
            ELSE new(Str(args[1]), None, Str(args[2]), Str(args[3]), Str(args[4]),
                     Val(args[5]))
       ELSE IF Len(args) = 6
       THEN IF args[2] = <<"REPLACE">>
            THEN new(Str(args[1]), Str(args[2]), Str(args[3]), Str(args[4]),
                     Str(args[5]), Val(args[6]))
            ELSE NotConstructed("ValueError")
       ELSE IF args = <<>> THEN NotConstructed("IndexError")
       ELSE new(Str(args[1]), Str(<<"MISSING">>), Str(<<"IGNORED">>), None,
                Str(<<"IGNORED">>), Val(<<"IGNORED">>))

\* ensure_correct_command_was_fed: the lower-cased class name against the
\* lower-cased identifier (a node without an identifier: AttributeError)
IdentifierUnchecked(cls, node) == IF node.command THEN "none" ELSE "AttributeError"
IdentifierCheck(cls, node) ==
    IF ~node.command THEN "AttributeError"
    ELSE IF Lower[cls] # Lower[node.identifier] THEN "ValueError"
    ELSE "none"

\* cls.from_command(a_command)
from_command(cls, node) ==
    LET checked(e) ==
            IF e # "none" THEN NotConstructed(e)
            ELSE LET initialized(i) ==
                         IF i.exc # "none" THEN NotConstructed(i.exc)
                         ELSE NewInstance(cls, i.initializer)
                 IN IF cls \in GitForges
                    THEN initialized(ForgeInitializer(cls, node.args, <<>>))
                    ELSE IF cls = "VCPKG_DOWNLOAD_DISTFILE"
                    THEN initialized(DistfileInitializer(cls, node.args,
                                                         "ARCHIVE" :> None))
                    ELSE IF cls \in Stubs THEN NewInstance(cls, <<>>)
                    ELSE IF cls = "SET"
                    THEN IF Len(node.args) < 2 THEN NotConstructed("IndexError")
                         ELSE NewInstance(cls, [What |-> Val(node.args[1]),
                                                ToWhat |-> Val(node.args[2])])
                    ELSE StringFromArgs(node.args)
    IN checked(IdentifierCheck(cls, node))

(***************************************************************************)
(* The pruner and the dispatcher.                                          *)
(***************************************************************************)
downloaders ==
    {"vcpkg_from_bitbucket", "vcpkg_from_github", "vcpkg_from_git",
     "vcpkg_from_gitlab", "vcpkg_from_sourceforge", "vcpkg_download_distfile",
     "vcpkg_get_windows_sdk", "ignition_modular_library"}

\* hasattr(node, 'identifier') and node.identifier.lower() in downloaders
IsDownloaderExactCase(node) == node.command /\ node.identifier \in downloaders
IsDownloader(node) == node.command /\ Lower[node.identifier] \in downloaders

\* the backward scan of prune_commands_list: the position of the last
\* downloader, 0 when the scan runs off the front
RECURSIVE LastDownloader(_, _)
LastDownloader(commands_list, pos) ==
    IF pos = 0 THEN 0
    ELSE IF IsDownloader(commands_list[pos]) THEN pos
    ELSE LastDownloader(commands_list, pos - 1)

prune_commands_list(commands_list) ==
    LET pruned(pos) ==
            IF pos # 0 THEN SubSeq(commands_list, 1, pos) ELSE commands_list
    IN pruned(LastDownloader(commands_list, Len(commands_list)))

\* `except Exception` catches every exception a from_command raises
CatchesOnlyValueError(exc) == exc = "ValueError"
Catches(exc) == TRUE

\* the inner loop of decadent_convert_to_inner for one node: every class of the
\* registry is tried, every instance constructed is appended
RECURSIVE TryClasses(_, _, _)
TryClasses(node, classes, made) ==
    IF classes = <<>> THEN [exc |-> "none", out |-> made]
    ELSE LET tried(res) ==
                 IF res.exc = "none"
                 THEN TryClasses(node, Tail(classes), Append(made, res.inst))
                 ELSE IF Catches(res.exc) THEN TryClasses(node, Tail(classes), made)
                 ELSE [exc |-> res.exc, out |-> made]
         IN tried(from_command(Head(classes), node))

RECURSIVE ConvertNodes(_, _)
ConvertNodes(nodes, made) ==
    IF nodes = <<>> THEN [exc |-> "none", out |-> made]
    ELSE LET converted(r) ==
                 IF r.exc # "none" THEN [exc |-> r.exc, out |-> made]
                 ELSE ConvertNodes(Tail(nodes), made \o r.out)
         IN converted(TryClasses(Head(nodes), Registry, <<>>))

decadent_convert_to_inner(port_parse_list) ==
    ConvertNodes(prune_commands_list(port_parse_list), <<>>)

(***************************************************************************)
(* Reification of an instance against the environment.                     *)
(***************************************************************************)
\* the elements of a list, each reified when it is a Value
RECURSIVE ReifyItems(_, _, _)
ReifyItems(items, context, done) ==
    IF items = <<>> THEN Returned(List(done))
    ELSE LET reified(r) ==
                 IF r.exc # "none" THEN Raised(r.exc)
                 ELSE ReifyItems(Tail(items), context, Append(done, r.v))
         IN reified(ReifyField(Head(items), context))

\* the loop over self.__dict__ of BaseCmakeCommand.reify, which keeps a list as
\* it is, and of VCPKG_DOWNLOAD_DISTFILE.reify, which reifies its elements
RECURSIVE ReifyFields(_, _, _, _)
ReifyFields(inst, names, context, source) ==
    IF names = <<>> THEN Constructed(Instance(inst.cls, source))
    ELSE LET v == inst.fields[Head(names)]
             reified(r) ==
                 IF r.exc # "none" THEN NotConstructed(r.exc)
                 ELSE ReifyFields(inst, Tail(names), context,
                                  (Head(names) :> r.v) @@ source)
         IN IF v.t = "list" /\ inst.cls = "VCPKG_DOWNLOAD_DISTFILE"
            THEN reified(ReifyItems(v.items, context, <<>>))
            ELSE reified(ReifyField(v, context))
\* the variants whose reify is `return self`: the instance applied is the very
\* instance of available_commands
ReifyReturnsSelf(cls) == cls \in Stubs \cup {"SET"}

\* ac.reify(context=environemnt): SET and the stubs return self, STRING
\* reifies InWhat only
ReifyInstance(inst, context) ==
    IF ReifyReturnsSelf(inst.cls) THEN Constructed(inst)
    ELSE IF inst.cls = "STRING"
    THEN LET reified(r) ==
                 IF r.exc # "none" THEN NotConstructed(r.exc)
                 ELSE Constructed(Instance("STRING",
                          [inst.fields EXCEPT !["InWhat"] = r.v]))
         IN reified(ReifyField(inst.fields["InWhat"], context))
    ELSE ReifyFields(inst, Fields[inst.cls], context, <<>>)

\* Value.needs_reification, and the Values among the elements of a list
NeedsReification(v) ==
    \/ v.t = "Value" /\ contains_variables(v.s) = "True"
    \/ v.t = "list" /\ \E i \in DOMAIN v.items :
           v.items[i].t = "Value" /\ contains_variables(v.items[i].s) = "True"

\* the fields of an instance that still hold an unresolved variable
PendingFields(inst) ==
    {f \in DOMAIN inst.fields : NeedsReification(inst.fields[f])}

(***************************************************************************)
(* do_special_magic of every variant.  An outcome is the exception raised  *)
(* (or "none"), the value returned, the environment left, the call of      *)
(* urlretrieve made (its url and filename) and whether path.mkdir ran.     *)
(***************************************************************************)
Outcome(exc, res, env, fetch, mkdir) ==
    [exc |-> exc, res |-> res, env |-> env, fetch |-> fetch, mkdir |-> mkdir]

\* the default `path` of do_special_magic
TmpFoo == <<"/", "tmp", "/", "foo">>

GithubFilename(REPO, REF) ==
    TmpFoo \o <<"/">> \o StrJoin(StrSplit(REPO, <<>>), <<"-">>) \o <<"-">>
        \o REF \o <<".tar.gz">>

GithubUrl(REPO, REF) ==
    <<"https:", "/", "/", "github.com", "/">> \o REPO
        \o <<"/", "archive", "/">> \o REF \o <<".tar.gz">>

\* VCPKG_FROM_GITHUB.do_special_magic, were REF used as it is given
GithubMagicKeepingRef(f, env) ==
    IF f["REF"].t # "str" THEN Outcome("TypeError", "None", env, <<>>, TRUE)
    ELSE IF f["REPO"].t # "str"
    THEN Outcome("AttributeError", "None", env, <<>>, TRUE)
    ELSE LET retrieve(REF, url, c) ==
                 IF c = "IndexError"
                 THEN Outcome("IndexError", "None", env, <<>>, TRUE)
                 ELSE IF c = "True" THEN Outcome("ValueError", "None", env, <<>>, TRUE)
                 ELSE Outcome("none", "True", env,
                              <<[url |-> url,
                                 filename |-> GithubFilename(f["REPO"].s, REF)]>>,
                              TRUE)
             built(REF, url) == retrieve(REF, url, contains_variables(url))
             sanitized(REF) == built(REF, GithubUrl(f["REPO"].s, REF))
         IN sanitized(f["REF"].s)

\* VCPKG_FROM_GITHUB.do_special_magic
GithubMagic(f, env) ==
    IF f["REF"].t # "str" THEN Outcome("TypeError", "None", env, <<>>, TRUE)
    ELSE IF f["REPO"].t # "str"
    THEN Outcome("AttributeError", "None", env, <<>>, TRUE)
    ELSE LET retrieve(REF, url, c) ==
                 IF c = "IndexError"
                 THEN Outcome("IndexError", "None", env, <<>>, TRUE)
                 ELSE IF c = "True" THEN Outcome("ValueError", "None", env, <<>>, TRUE)
                 ELSE Outcome("none", "True", env,
                              <<[url |-> url,
                                 filename |-> GithubFilename(f["REPO"].s, REF)]>>,
                              TRUE)
             built(REF, url) == retrieve(REF, url, contains_variables(url))
             sanitized(REF) == built(REF, GithubUrl(f["REPO"].s, REF))
         IN sanitized(StrReplace(f["REF"].s, <<"/">>, <<"_">>))

\* VCPKG_FROM_GIT.do_special_magic, were to_run run as a retrieval of URL
GitMagicRetrieving(f, env) ==
    Outcome("none", "True", env, <<[url |-> f["URL"].s, filename |-> TmpFoo]>>, TRUE)

\* VCPKG_FROM_GIT.do_special_magic: to_run is built and never run
GitMagic(f, env) ==
    IF f["URL"].t # "str" THEN Outcome("TypeError", "None", env, <<>>, TRUE)
    ELSE LET checked(c) ==
                 IF c = "IndexError"
                 THEN Outcome("IndexError", "None", env, <<>>, TRUE)
                 ELSE IF c = "True" THEN Outcome("ValueError", "None", env, <<>>, TRUE)
                 ELSE Outcome("none", "False", env, <<>>, TRUE)
         IN checked(contains_variables(f["URL"].s))

\* str(v), as an f-string formats a field
Formatted(v) ==
    IF v.t = "None" THEN <<"None">>
    ELSE IF v.t = "Value" THEN <<"Value(contents='">> \o v.s \o <<"')">>
    ELSE v.s

\* the url of VCPKG_FROM_SOURCEFORGE.do_special_magic, for a REPO with at most
\* one "/": a local that nothing reads
SourceforgeUrl(f) ==
    LET sf_url == <<"https:", "/", "/", "sourceforge.net", "/", "projects">>
        pieces == StrSplit(f["REPO"].s, <<>>)
        org_name == pieces[1]
        repo_name == IF Len(pieces) = 2 THEN pieces[2] ELSE <<>>
    IN IF f["REF"].t # "None"
       THEN sf_url \o <<"/">> \o org_name \o <<"/", "files", "/">> \o repo_name
                \o <<"/">> \o Formatted(f["REF"]) \o <<"/">> \o Formatted(f["FILENAME"])
       ELSE IF repo_name # <<>>
       THEN sf_url \o <<"/">> \o org_name \o <<"/">> \o repo_name
                \o <<"/", "files", "/">> \o Formatted(f["FILENAME"])
       ELSE sf_url \o <<"/">> \o org_name \o <<"/", "files", "/">>
                \o Formatted(f["FILENAME"])

\* VCPKG_FROM_SOURCEFORGE.do_special_magic, were it to set its out variable
SourceforgeMagicSettingPath(f, env) ==
    Outcome("none", "False", (<<"SOURCE_PATH">> :> TmpFoo) @@ env, <<>>, TRUE)

\* VCPKG_FROM_SOURCEFORGE.do_special_magic: org_name, repo_name = REPO.split("/")
SourceforgeMagic(f, env) ==
    IF f["REPO"].t # "str" THEN Outcome("TypeError", "None", env, <<>>, TRUE)
    ELSE IF "/" \in Range(f["REPO"].s) /\ Len(StrSplit(f["REPO"].s, <<>>)) # 2
    THEN Outcome("ValueError", "None", env, <<>>, TRUE)
    ELSE Outcome("none", "False", env, <<>>, TRUE)

\* the loop over self.URLS of VCPKG_DOWNLOAD_DISTFILE.do_special_magic
RECURSIVE DistfileUrls(_)
DistfileUrls(urls) ==
    IF urls = <<>> THEN "none"
    ELSE IF Head(urls).t # "Value" THEN DistfileUrls(Tail(urls))
    ELSE LET checked(c) ==
                 IF c = "IndexError" THEN "IndexError"
                 ELSE IF c = "True" THEN "ValueError"
                 ELSE DistfileUrls(Tail(urls))
         IN checked(contains_variables(Head(urls).s))

\* VCPKG_DOWNLOAD_DISTFILE.do_special_magic
DistfileMagic(f, env) ==
    IF f["FILENAME"].t # "str" THEN Outcome("TypeError", "None", env, <<>>, TRUE)
    ELSE LET checked(e) ==
                 IF e # "none" THEN Outcome(e, "None", env, <<>>, TRUE)
                 ELSE Outcome("none", "False", env, <<>>, TRUE)
         IN checked(DistfileUrls(f["URLS"].items))

\* SET.do_special_magic, were it to write whatever the reification returns
SetMagicWritingPending(f, env) ==
    LET assign(to_what) ==
            IF to_what.exc # "none"
            THEN Outcome(to_what.exc, "None", env, <<>>, FALSE)
            ELSE Outcome("none", "None", (f["What"].s :> to_what.v.s) @@ env,
                         <<>>, FALSE)
    IN assign(ReifyIn(f["ToWhat"].s, env))
\* SET.do_special_magic
SetMagic(f, env) ==
    LET assign(to_what) ==
            IF to_what.exc # "none"
            THEN Outcome(to_what.exc, "None", env, <<>>, FALSE)
            ELSE IF to_what.v.t = "str"
            THEN Outcome("none", "None", (f["What"].s :> to_what.v.s) @@ env,
                         <<>>, FALSE)
            ELSE Outcome("none", "None", env, <<>>, FALSE)
    IN assign(ReifyIn(f["ToWhat"].s, env))

\* int(s) for the one-digit numerals of the model
IntOf(v) ==
    IF v.t # "str" THEN [exc |-> "TypeError", n |-> 0]
    ELSE IF Len(v.s) = 1 /\ v.s[1] \in {"0", "1", "2", "3"}
    THEN [exc |-> "none",
          n |-> CASE v.s[1] = "0" -> 0 [] v.s[1] = "1" -> 1
                  [] v.s[1] = "2" -> 2 [] OTHER -> 3]
    ELSE [exc |-> "ValueError", n |-> 0]

\* strn[a:b] for a, b >= 0
Slice(strn, a, b) == SubSeq(strn, a + 1, IF b < Len(strn) THEN b ELSE Len(strn))

\* the groups open after the first k symbols of a pattern
ParenDepth(pattern, k) ==
    Cardinality({i \in 1..k : pattern[i] = "("})
        - Cardinality({i \in 1..k : pattern[i] = ")"})

\* re.compile: the patterns of the model are literal text in which "(" and
\* ")" delimit capture groups; a pattern whose parentheses do not pair up
\* does not compile
PatternCompiles(pattern) ==
    /\ \A k \in 1..Len(pattern) : ParenDepth(pattern, k) >= 0
    /\ ParenDepth(pattern, Len(pattern)) = 0

\* the text a pattern of the model matches: the pattern without its
\* parentheses
PatternText(pattern) == SelectSeq(pattern, LAMBDA sym : sym \notin {"(", ")"})

\* match.groups(): the text of each capture group, in the order in which the
\* groups open
GroupTexts(pattern) ==
    LET opens == {i \in 1..Len(pattern) : pattern[i] = "("}
        nth(n) == CHOOSE i \in opens : Cardinality({j \in opens : j <= i}) = n
        close(i) == CHOOSE j \in (i + 1)..Len(pattern) :
                        /\ ParenDepth(pattern, j) = ParenDepth(pattern, i) - 1
                        /\ \A k \in (i + 1)..(j - 1) :
                               ParenDepth(pattern, k) >= ParenDepth(pattern, i)
    IN [n \in 1..Cardinality(opens) |->
           PatternText(SubSeq(pattern, nth(n) + 1, close(nth(n)) - 1))]

\* f"CMAKE_MATCH_{group_num}"
MatchName(group_num) ==
    CASE group_num = 1 -> <<"CMAKE_MATCH_1">>
      [] group_num = 2 -> <<"CMAKE_MATCH_2">>
      [] OTHER -> <<"CMAKE_MATCH_3">>

\* the writes of a REGEX MATCH that found a match, were the groups left out
MatchWritesWholeOnly(pattern, to_what, env) ==
    (to_what :> PatternText(pattern)) @@ env
\* the writes of a REGEX MATCH that found a match: every group under its
\* CMAKE_MATCH_ name, then the whole match under ToWhat
MatchWrites(pattern, to_what, env) ==
    LET groups == GroupTexts(pattern)
        written == [name \in {MatchName(n) : n \in DOMAIN groups} |->
                       groups[CHOOSE n \in DOMAIN groups : MatchName(n) = name]]
    IN (to_what :> PatternText(pattern)) @@ written @@ env

\* STRING.do_special_magic
StringMagic(f, env) ==
    LET cmd == f["cmd"]
        subcmd == f["subcmd"]
        InWhat == f["InWhat"]
        What == f["What"]
        WithWhat == f["WithWhat"]
        raise(e) == Outcome(e, "None", env, <<>>, FALSE)
        store(v) == Outcome("none", "None", (f["ToWhat"].s :> v) @@ env, <<>>, FALSE)
    IN IF cmd = Str(<<"REPLACE">>)
       THEN IF InWhat.t # "str" THEN raise("AttributeError")
            ELSE IF WithWhat.t # "str" THEN raise("TypeError")
            ELSE store(StrReplace(InWhat.s, What.s, WithWhat.s))
       ELSE IF cmd = Str(<<"SUBSTRING">>)
       THEN IF IntOf(What).exc # "none" THEN raise(IntOf(What).exc)
            ELSE IF IntOf(WithWhat).exc # "none" THEN raise(IntOf(WithWhat).exc)
            ELSE IF InWhat.t # "str" THEN raise("TypeError")
            ELSE store(Slice(InWhat.s, IntOf(What).n, IntOf(WithWhat).n))
       ELSE IF cmd = Str(<<"REGEX">>) /\ subcmd = Str(<<"REPLACE">>)
       THEN IF ~PatternCompiles(What.s) THEN raise("re.error")
            ELSE IF InWhat.t # "str" THEN raise("TypeError")
            ELSE store(StrReplace(InWhat.s, PatternText(What.s), WithWhat.s))
       ELSE IF cmd = Str(<<"REGEX">>) /\ subcmd = Str(<<"MATCH">>)
       THEN LET pattern == StrReplace(What.s, <<"\\">>, <<>>)
            IN IF ~PatternCompiles(pattern) THEN raise("re.error")
               ELSE IF InWhat.t # "str" THEN raise("TypeError")
               ELSE IF /\ PatternText(pattern) # <<>>
                       /\ FindFirst(InWhat.s, PatternText(pattern)) = 0
               THEN raise("ValueError")
               ELSE Outcome("none", "None", MatchWrites(pattern, f["ToWhat"].s, env),
                            <<>>, FALSE)
       ELSE raise("ValueError")

\* re.sub(r'\\\\(\d+)', r'\\g<\g<1>>', WithWhat): two backslashes and a numeral
\* become a group reference
RECURSIVE RewriteGroups(_)
RewriteGroups(strn) ==
    IF Len(strn) < 3 THEN strn
    ELSE IF strn[1] = "\\" /\ strn[2] = "\\" /\ strn[3] \in {"0", "1", "2", "3"}
    THEN <<"\\", "g", "<", strn[3], ">">> \o RewriteGroups(SubSeq(strn, 4, Len(strn)))
    ELSE <<Head(strn)>> \o RewriteGroups(Tail(strn))

\* the instance as do_special_magic leaves it: self.REF, self.FILENAME and
\* self.WithWhat are assigned the rewritten text before anything is tested
Rewritten(inst) ==
    IF inst.cls = "VCPKG_FROM_GITHUB" /\ inst.fields["REF"].t = "str"
    THEN Instance(inst.cls,
                  [inst.fields EXCEPT !["REF"] = Str(StrReplace(@.s, <<"/">>, <<"_">>))])
    ELSE IF inst.cls = "VCPKG_DOWNLOAD_DISTFILE" /\ inst.fields["FILENAME"].t = "str"
    THEN Instance(inst.cls,
                  [inst.fields EXCEPT
                       !["FILENAME"] = Str(StrReplace(@.s, <<"/">>, <<"_">>))])
    ELSE IF /\ inst.cls = "STRING"
            /\ inst.fields["cmd"] = Str(<<"REGEX">>)
            /\ inst.fields["subcmd"] = Str(<<"REPLACE">>)
            /\ inst.fields["WithWhat"].t = "str"
    THEN Instance(inst.cls,
                  [inst.fields EXCEPT !["WithWhat"] = Str(RewriteGroups(@.s))])
    ELSE inst

\* val.do_special_magic(environemnt=environemnt)
do_special_magic(inst, env) ==
    IF inst.cls = "VCPKG_FROM_GITHUB" THEN GithubMagic(inst.fields, env)
    ELSE IF inst.cls = "VCPKG_FROM_GIT" THEN GitMagic(inst.fields, env)
    ELSE IF inst.cls = "VCPKG_FROM_SOURCEFORGE" THEN SourceforgeMagic(inst.fields, env)
    ELSE IF inst.cls = "VCPKG_DOWNLOAD_DISTFILE" THEN DistfileMagic(inst.fields, env)
    ELSE IF inst.cls = "SET" THEN SetMagic(inst.fields, env)
    ELSE IF inst.cls = "STRING" THEN StringMagic(inst.fields, env)
    ELSE Outcome("none", "False", env, <<>>, FALSE)

(***************************************************************************)
(* The environment a port starts with.                                     *)
(***************************************************************************)
\* path_to_ports, from HERMETO_VCPKG_PATH_TO_PORTS
path_to_ports == <<"/", "vcpkg", "/", "ports">>

VersionKeys ==
    << <<"version">>, <<"version-string">>, <<"version-semver">>,
       <<"version-date">> >>

\* any_key_that_is_present, were the last of the keys present to win
RECURSIVE any_key_last_present(_, _)
any_key_last_present(dct, keys) ==
    IF keys = <<>> THEN <<"THIS-IS-NOT-A-VERSION!">>
    ELSE IF keys[Len(keys)] \in DOMAIN dct THEN dct[keys[Len(keys)]]
    ELSE any_key_last_present(dct, SubSeq(keys, 1, Len(keys) - 1))
RECURSIVE any_key_that_is_present(_, _)
any_key_that_is_present(dct, keys) ==
    IF keys = <<>> THEN <<"THIS-IS-NOT-A-VERSION!">>
    ELSE IF Head(keys) \in DOMAIN dct THEN dct[Head(keys)]
    ELSE any_key_that_is_present(dct, Tail(keys))

prepopulate_environment_from_port_json(portname, data) ==
    (<<"VERSION">> :> any_key_that_is_present(data, VersionKeys))
    @@ (<<"PORT">> :> portname)
    @@ (<<"CURRENT_PORT_DIR">> :> path_to_ports \o <<"/">> \o portname)
    @@ (<<"CURRENT_BUILDTREES_DIR">> :> <<"/", "vcpkg", "/", "buildtrees">>)

(***************************************************************************)
(* The interpretation driver reify_single_port.                            *)
(***************************************************************************)
\* the most command nodes of a portfile.cmake the driver is run on
MaxCommands == 2
\* the most command nodes of a sequence the dispatcher alone is run on
MaxNodes == 3

portname == <<"zlib">>

\* ports/<portname>/vcpkg.json: a file holding a manifest, of which the model
\* keeps the version keys, or no file
PortFile(data) == [exists |-> TRUE, data |-> data]
NoFile == [exists |-> FALSE, data |-> <<>>]

\* json.loads((path_to_ports / portname / "vcpkg.json").read_text())
get_port_json(file) ==
    IF file.exists THEN [exc |-> "none", data |-> file.data]
    ELSE [exc |-> "FileNotFoundError", data |-> <<>>]

\* the vcpkg.json of the ports the recipes are interpreted for
PortJsons ==
    { PortFile(<<>>),
      PortFile((<<"version-date">> :> <<"d">>) @@ (<<"version-string">> :> <<"x">>)),
      NoFile }

\* every manifest over the version keys, each key with one of two values
Manifests ==
    { PortFile(data) :
        data \in UNION { [keys -> {<<"1">>, <<"2">>}] :
                           keys \in SUBSET {VersionKeys[i] : i \in DOMAIN VersionKeys} } }
        \cup {NoFile}

Word(w) == <<w>>
Var(n) == <<"$", "{", n, "}">>
OutSourcePath == <<Word("OUT_SOURCE_PATH"), Word("SOURCE_PATH")>>
Sha == <<Word("SHA512"), Word("0")>>
Repo == <<Word("REPO"), <<"o", "/", "r">>>>

\* assignments and string transforms of a recipe
Assignments ==
    { Command("set", <<Word("A"), <<"x", "/", "y">>>>),
      Command("SET", <<Word("B"), Var("A")>>),
      Command("Set", <<Word("C"), <<"$", "{", "A">>>>),
      Command("set", <<Word("D")>>) }

Transforms ==
    { Command("string", <<Word("REPLACE"), Word("/"), Word("_"), Word("E"), Var("A")>>),
      Command("string", <<Word("REPLACE"), Word("/"), Word("_"), Word("K"),
                          <<"$", "{", "A">>>>),
      Command("string", <<Word("REPLACE"), Word("x"), Var("U"), Word("L"), Word("x")>>),
      Command("string", <<Word("APPEND"), Word("F"), Word("y")>>),
      Command("STRING", <<Word("REGEX"), Word("MATCH"), Word("("), Word("G"), Var("A")>>),
      Command("string", <<Word("REGEX"), Word("MATCH"), Word("x"), Word("H"),
                          Var("VERSION")>>),
      Command("string", <<Word("REGEX"), Word("MATCH"), <<"(", "x", ")", "/">>,
                          Word("M"), Var("A")>>),
      Command("string", <<Word("REGEX"), Word("REPLACE"), Word("/"), Word("_"),
                          Word("I"), Var("A")>>),
      Command("string", <<Word("SUBSTRING"), Var("A"), Word("0"), Word("1"), Word("J")>>),
      Command("string", <<Word("REGEX"), Word("FOO"), Word("a"), Word("b"), Word("c"),
                          Word("d")>>) }

\* fetch directives: U is a variable no command sets
Fetches ==
    { Command("vcpkg_from_github",
              OutSourcePath \o Repo \o <<Word("REF"), Var("A")>> \o Sha),
      Command("Vcpkg_From_GitHub",
              OutSourcePath \o <<Word("REPO"), Var("U"), Word("REF"), Word("v1")>> \o Sha),
      Command("VCPKG_FROM_GITHUB",
              OutSourcePath \o Repo
                  \o <<Word("REF"), Word("v1"), Word("SHA512"), Var("U"), Word("PATCHES")>>),
      Command("vcpkg_from_github",
              OutSourcePath \o Repo \o <<Word("REF"), <<"$", "{", "U">>>> \o Sha),
      Command("vcpkg_from_github", Repo \o <<Word("REF"), Word("v1")>> \o Sha),
      Command("vcpkg_from_github", Repo),
      Command("vcpkg_from_github",
              OutSourcePath \o <<Word("REPO"), Word("REF"), Word("v1")>> \o Sha),
      Command("vcpkg_from_gitlab",
              OutSourcePath \o Repo \o <<Word("REF"), Var("U")>> \o Sha),
      Command("VCPKG_FROM_BITBUCKET",
              OutSourcePath \o <<Word("REPO"), Var("A"), Word("REF"), Word("v1")>> \o Sha),
      Command("vcpkg_from_git",
              OutSourcePath \o <<Word("URL"), Var("A"), Word("REF"), Word("v1")>>),
      Command("vcpkg_from_git",
              OutSourcePath \o <<Word("URL"), Word("u"), Word("REF"), Var("U")>>),
      Command("vcpkg_from_sourceforge", OutSourcePath \o <<Word("REPO"), Var("A")>>),
      Command("vcpkg_from_sourceforge",
              OutSourcePath \o <<Word("REPO"), <<"o", "/", "r", "/", "s">>,
                                 Word("FILENAME"), Word("f")>>),
      Command("vcpkg_from_sourceforge",
              OutSourcePath \o Repo \o <<Word("FILENAME"), Var("U")>>),
      Command("vcpkg_download_distfile",
              <<Word("ARCHIVE"), Word("URLS"), Var("A"), Word("m"), Word("FILENAME"),
                Word("f")>> \o Sha),
      Command("vcpkg_download_distfile",
              <<Word("ARCHIVE"), Word("URLS"), Word("u"), Word("FILENAME"), Var("U")>>
                  \o Sha),
      Command("vcpkg_download_distfile",
              <<Word("ARCHIVE"), Word("URLS"), Word("u"), Word("FILENAME"), Word("f"),
                Word("SHA512"), Var("U")>>) }

\* stubs, a command no variant knows, a node that is not a command
Others ==
    { Command("vcpkg_get_windows_sdk", <<Word("WINDOWS_SDK")>>),
      Command("IGNITION_MODULAR_LIBRARY", <<>>),
      Command("qt_install_submodule", <<>>),
      Command("message", <<Word("STATUS")>>),
      Comment }

Nodes == Assignments \cup Transforms \cup Fetches \cup Others

\* the shapes of node the dispatcher alone is run on
Shapes ==
    { n \in Nodes :
        \/ ~n.command
        \/ n.identifier \in {"set", "message", "qt_install_submodule",
                             "vcpkg_get_windows_sdk", "IGNITION_MODULAR_LIBRARY",
                             "vcpkg_from_gitlab", "VCPKG_FROM_GITHUB"}
        \/ n.identifier = "vcpkg_from_github" /\ Len(n.args) < 8
        \/ n.identifier = "string" /\ Len(n.args) \in {3, 6} }

SeqsUpTo(S, n) == UNION {[1..k -> S] : k \in 0..n}

\* available_commands = decadent_convert_to_inner(get_parsed_portfile(portname))
ConvertToInner ==
    /\ pc = "start"
    /\ LET converted(r) ==
               IF r.exc = "none"
               THEN /\ available_commands' = r.out
                    /\ pc' = "converted"
                    /\ error' = error
               ELSE /\ available_commands' = available_commands
                    /\ pc' = "raised"
                    /\ error' = [exc |-> r.exc, cls |-> "", at |-> "dispatch"]
       IN converted(decadent_convert_to_inner(portfile))
    /\ UNCHANGED <<portfile, environemnt, ip, out, applied, fetched, executed, tmpdir,
                   port_json, retrievals, run, first>>
    /\ UNCHANGED <<depVars, valueVars, checkVars>>

\* environemnt = prepopulate_environment_from_port_json(portname): the name
\* is bound to a new dict, whatever an earlier call left
SeededOverLeft(left, data) ==
    left @@ prepopulate_environment_from_port_json(portname, data)

SeededEnvironment(left, data) ==
    prepopulate_environment_from_port_json(portname, data)

\* environemnt = prepopulate_environment_from_port_json(portname); out = [],
\* for a port whose vcpkg.json is one of `files`.  get_port_json raises when
\* there is no file, and the exception leaves the driver.  A second call of
\* the driver finds the vcpkg.json the first one found.
PrepopulateFrom(files) ==
    /\ pc = "converted"
    /\ \E file \in files :
           /\ run = 2 => file = port_json
           /\ port_json' = file
           /\ IF get_port_json(file).exc = "none"
              THEN /\ environemnt' =
                         SeededEnvironment(environemnt, get_port_json(file).data)
                   /\ ip' = 1
                   /\ out' = "[]"
                   /\ pc' = "interpreting"
                   /\ error' = error
              ELSE /\ pc' = "raised"
                   /\ error' = [exc |-> get_port_json(file).exc, cls |-> "",
                                at |-> "seed"]
                   /\ UNCHANGED <<environemnt, ip, out>>
    /\ UNCHANGED <<portfile, available_commands, applied, fetched,
                   executed, tmpdir, retrievals, run, first>>
    /\ UNCHANGED <<depVars, valueVars, checkVars>>

Prepopulate == PrepopulateFrom(PortJsons)

\* the dict a turn of the loop works on, were it the dict as it was seeded
PassedAsSeeded(current, seeded) == seeded
\* the dict a turn of the loop works on: environemnt is bound once, before the
\* loop, and every turn is handed that one dict with the writes made so far
PassedEnvironment(current, seeded) == current

\* one turn of the loop: val = ac.reify(context=environemnt), then
\* res = val.do_special_magic(environemnt=environemnt); any exception leaves
\* the driver.  urlretrieve, when called, retrieves the file or raises.
InterpretCommand ==
    /\ pc = "interpreting"
    /\ ip <= Len(available_commands)
    /\ LET ac == available_commands[ip]
           passed == PassedEnvironment(environemnt,
                                       SeededEnvironment(<<>>, port_json.data))
           finish(e, val, r) ==
               /\ applied' = Append(applied,
                                 [cls |-> ac.cls,
                                  pending |-> PendingFields(val.inst),
                                  val |-> Rewritten(val.inst),
                                  exc |-> e])
               /\ available_commands' =
                      IF ReifyReturnsSelf(ac.cls)
                      THEN [available_commands EXCEPT ![ip] = Rewritten(val.inst)]
                      ELSE available_commands
               /\ environemnt' = r.env
               /\ fetched' = fetched \o r.fetch
               /\ retrievals' = IF r.exc = "none" /\ r.fetch # <<>>
                                 THEN Append(retrievals, e # "URLError")
                                 ELSE retrievals
               /\ tmpdir' = (tmpdir \/ r.mkdir)
               /\ IF e # "none"
                  THEN /\ pc' = "raised"
                       /\ error' = [exc |-> e, cls |-> ac.cls, at |-> "apply"]
                       /\ UNCHANGED <<ip, out>>
                  ELSE /\ pc' = pc
                       /\ error' = error
                       /\ ip' = ip + 1
                       /\ out' = IF r.res = "True" THEN "True" ELSE out
           apply(val, r) ==
               \E retrieved \in BOOLEAN :
                   finish(IF r.exc = "none" /\ r.fetch # <<>> /\ ~retrieved
                          THEN "URLError" ELSE r.exc, val, r)
           reified(val) ==
               IF val.exc # "none"
               THEN /\ pc' = "raised"
                    /\ error' = [exc |-> val.exc, cls |-> ac.cls, at |-> "reify"]
                    /\ UNCHANGED <<available_commands, environemnt, ip, out, applied,
                                   fetched, tmpdir, retrievals>>
               ELSE apply(val, do_special_magic(val.inst, passed))
       IN reified(ReifyInstance(ac, passed))
    /\ UNCHANGED <<portfile, executed, port_json, run, first>>
    /\ UNCHANGED <<depVars, valueVars, checkVars>>

\* return out, environemnt
Return ==
    /\ pc = "interpreting"
    /\ ip > Len(available_commands)
    /\ pc' = "returned"
    /\ UNCHANGED <<portfile, available_commands, environemnt, ip, out, error,
                   applied, fetched, executed, tmpdir, port_json, retrievals, run,
                   first>>
    /\ UNCHANGED <<depVars, valueVars, checkVars>>

\* what a call of the driver ended with: the value returned or the exception
\* raised, the environment, and the retrievals made
RunResult ==
    [pc |-> pc, error |-> error, out |-> out, environemnt |-> environemnt,
     fetched |-> fetched, retrievals |-> retrievals]

\* reify_single_port is called once more on the same instances: the commands
\* are interpreted again from the first, with what the first call left behind
\* (the instances, the directory) as it is
Rerun ==
    /\ run = 1
    /\ pc \in {"returned", "raised"}
    /\ first' = RunResult
    /\ run' = 2
    /\ pc' = "converted"
    /\ ip' = 0
    /\ error' = NoError
    /\ applied' = <<>>
    /\ fetched' = <<>>
    /\ retrievals' = <<>>
    /\ UNCHANGED <<portfile, available_commands, environemnt, out, executed,
                   tmpdir, port_json>>
    /\ UNCHANGED <<depVars, valueVars, checkVars>>

DriverStart ==
    /\ available_commands = <<>>
    /\ environemnt = <<>>
    /\ ip = 0
    /\ out = "[]"
    /\ pc = "start"
    /\ error = NoError
    /\ applied = <<>>
    /\ fetched = <<>>
    /\ executed = <<>>
    /\ tmpdir = FALSE
    /\ port_json = [exists |-> FALSE, data |-> <<>>]
    /\ retrievals = <<>>
    /\ run = 1
    /\ first = NoRun
    /\ WalkerIdle
    /\ ValueIdle
    /\ CheckIdle

Init ==
    /\ portfile \in SeqsUpTo(Nodes, MaxCommands)
    /\ DriverStart

Next ==
    \/ ConvertToInner
    \/ Prepopulate
    \/ InterpretCommand
    \/ Return
    \/ Rerun

Spec == Init /\ [][Next]_vars

\* the dispatcher alone, on the sequences of the shapes of node
InitDispatch ==
    /\ portfile \in SeqsUpTo(Shapes, MaxNodes)
    /\ DriverStart

NextDispatch == ConvertToInner

SpecDispatch == InitDispatch /\ [][NextDispatch]_vars

\* the driver on a recipe of at most one command that reads VERSION, for a
\* port with any of the manifests
PrepopulateAny == PrepopulateFrom(Manifests)

InitSeed ==
    /\ portfile \in SeqsUpTo({Command("set", <<Word("V"), Var("VERSION")>>)}, 1)
    /\ DriverStart

NextSeed ==
    \/ ConvertToInner
    \/ PrepopulateAny
    \/ InterpretCommand
    \/ Return

SpecSeed == InitSeed /\ [][NextSeed]_vars

(***************************************************************************)
(* The claims about the dependency walker.                                 *)
(***************************************************************************)
\* the ports a port's manifest declares, directly or in a feature
DeclaredBy(p) ==
    IF ~ports[p].exists THEN {}
    ELSE {dependency_name(d) : d \in Range(ports[p].dependencies)
                                     \cup Range(Flatten(ports[p].features))}

RECURSIVE ReachableFrom(_, _)
ReachableFrom(found, k) ==
    IF k = 0 THEN found
    ELSE ReachableFrom(found \cup UNION {DeclaredBy(p) : p \in found}, k - 1)

\* every port a chain of one or more declarations leads to from the root
Reachable == ReachableFrom(DeclaredBy(RootPort), Cardinality(PortNames))

Terminated == dpc \in {"done", "raised"}

\* C1: the set find_deps returns for a root never holds the root's own name,
\* whether the root declares itself or a reachable port declares the root.
C1_RootNotInResult == dpc = "done" => RootPort \notin result

\* C2: the set find_deps returns holds every port reachable from the root by a
\* chain of direct and feature declarations, other than the root itself.
C2_ReachableInResult == dpc = "done" => (Reachable \ {RootPort}) \subseteq result

\* the traversal returned, and a port reached through a sibling that found it
\* already in `seen` (the root had listed it too) is in the result
C2_Witness ==
    /\ dpc = "done"
    /\ \E q \in DeclaredBy(RootPort) \ {RootPort} :
         \E r \in DeclaredBy(q) \ {RootPort, q} :
            /\ r \in DeclaredBy(RootPort)
            /\ r \in result

\* C3: find_deps terminates (it returns, or a missing manifest raises) on
\* every ports tree: self-dependencies, cycles, a dependency listed twice.
C3_Terminates == <>Terminated

\* the traversal returned on a tree with a cycle through the root and a port
\* that some manifest lists both directly and in a feature
C3_Witness ==
    /\ dpc = "done"
    /\ \E q \in Reachable \ {RootPort} : RootPort \in DeclaredBy(q)
    /\ \E p \in PortNames :
         Range(ports[p].dependencies) \cap Range(Flatten(ports[p].features)) # {}

(***************************************************************************)
(* The claims about the pruner and the dispatcher (SpecDispatch).          *)
(***************************************************************************)
FetchIdentifiers ==
    {"vcpkg_from_github", "vcpkg_from_gitlab", "vcpkg_from_bitbucket",
     "vcpkg_from_git", "vcpkg_from_sourceforge", "vcpkg_download_distfile"}

InertStubIdentifiers == {"vcpkg_get_windows_sdk", "ignition_modular_library"}

\* the positions of the commands the pruner is to keep the sequence up to
KeptPositions(cmds) ==
    {i \in DOMAIN cmds :
        /\ cmds[i].command
        /\ Lower[cmds[i].identifier] \in FetchIdentifiers \cup InertStubIdentifiers}

\* C4: prune_commands_list returns the prefix that ends with the last command
\* whose identifier, compared case-insensitively, is that of a fetch directive
\* or of an inert stub; with no such command it returns the sequence unchanged.
C4_PrunedPrefix ==
    LET kept == KeptPositions(portfile)
    IN IF kept = {} THEN prune_commands_list(portfile) = portfile
       ELSE \E last \in kept :
                /\ \A i \in kept : i <= last
                /\ prune_commands_list(portfile) = SubSeq(portfile, 1, last)

\* a fetch directive, then a stub spelled in capitals, then a command that is
\* neither: the sequence is cut after the second
C4_Witness ==
    /\ pc = "converted"
    /\ Len(portfile) = 3
    /\ KeptPositions(portfile) = {1, 2}
    /\ portfile[2].identifier = "IGNITION_MODULAR_LIBRARY"
    /\ portfile[3].command
    /\ prune_commands_list(portfile) = SubSeq(portfile, 1, 2)

\* C7: decadent_convert_to_inner returns normally for every command sequence:
\* a candidate that raises while it is constructed is discarded, and a command
\* no variant constructs from is dropped without the commands after it being
\* lost: every instance a variant constructs from a kept command is returned.
C7_DispatchNeverFails ==
    /\ pc # "raised"
    /\ decadent_convert_to_inner(portfile).exc = "none"
    /\ pc = "converted" =>
           \A i \in DOMAIN prune_commands_list(portfile) :
               \A j \in DOMAIN Registry :
                   LET res == from_command(Registry[j], prune_commands_list(portfile)[i])
                   IN res.exc = "none" => res.inst \in Range(available_commands)

\* a command every variant raises on (one of them for a missing required
\* field), followed by a command a variant constructs from
C7_Witness ==
    /\ pc = "converted"
    /\ available_commands # <<>>
    /\ \E i, k \in DOMAIN prune_commands_list(portfile) :
           /\ i < k
           /\ portfile[i].command
           /\ \A j \in DOMAIN Registry :
                  from_command(Registry[j], portfile[i]).exc # "none"
           /\ \E j \in DOMAIN Registry :
                  from_command(Registry[j], portfile[i]).exc = "TypeError"
           /\ \E j \in DOMAIN Registry :
                  from_command(Registry[j], portfile[k]).exc = "none"

\* C8: every instance the dispatcher returns is constructed from a command of
\* its own, by the registered variant whose lower-cased class name is the
\* lower-cased identifier of that command, and the instances are in the order
\* of their commands (so no command yields two instances).
C8_OneVariantPerCommand ==
    pc = "converted" =>
        LET pruned == prune_commands_list(portfile)
        IN \E f \in [DOMAIN available_commands -> DOMAIN pruned] :
               /\ \A a, b \in DOMAIN available_commands : a < b => f[a] < f[b]
               /\ \A a \in DOMAIN available_commands :
                      /\ pruned[f[a]].command
                      /\ available_commands[a].cls \in Range(Registry)
                      /\ Lower[available_commands[a].cls] =
                             Lower[pruned[f[a]].identifier]
                      /\ from_command(available_commands[a].cls, pruned[f[a]]) =
                             Constructed(available_commands[a])

\* two instances of different variants, one of them from a command spelled in
\* capitals, with a dropped command among the commands
C8_Witness ==
    /\ pc = "converted"
    /\ Len(available_commands) = 2
    /\ Len(prune_commands_list(portfile)) = 3
    /\ available_commands[1].cls # available_commands[2].cls
    /\ \E i \in DOMAIN portfile :
           portfile[i].command /\ portfile[i].identifier # Lower[portfile[i].identifier]

(***************************************************************************)
(* The claims about the interpretation driver (Spec).                      *)
(***************************************************************************)
FetchDirectives ==
    {"VCPKG_FROM_GITHUB", "VCPKG_FROM_GITLAB", "VCPKG_FROM_BITBUCKET",
     "VCPKG_FROM_GIT", "VCPKG_FROM_SOURCEFORGE", "VCPKG_DOWNLOAD_DISTFILE"}

\* C5: a fetch directive of any of the six kinds that is applied while one of
\* its fields still needs reification fails.
C5_PendingFetchFails ==
    \A i \in DOMAIN applied :
        applied[i].cls \in FetchDirectives /\ applied[i].pending # {}
            => applied[i].exc # "none"

\* the command the driver was at when an exception left it
FailedCommand == available_commands[ip]

\* C6: an exception leaves the driver only from the apply of a fetch directive
\* with a field that still needs reification, or from a regular-expression
\* string transform whose pattern is broken.
C6_OnlyFetchOrRegexFailures ==
    pc = "raised" =>
        \/ /\ error.at = "apply"
           /\ error.cls \in FetchDirectives
           /\ applied[Len(applied)].pending # {}
        \/ /\ error.at = "apply"
           /\ error.cls = "STRING"
           /\ FailedCommand.fields["cmd"] = Str(<<"REGEX">>)
           /\ FailedCommand.fields["subcmd"] \in {Str(<<"MATCH">>), Str(<<"REPLACE">>)}
           /\ error.exc \in {"re.error", "ValueError"}

GithubRetrievals ==
    {i \in DOMAIN applied :
        applied[i].cls = "VCPKG_FROM_GITHUB" /\ applied[i].exc \in {"none", "URLError"}}

C10_OnlySetAndStringMutate ==
    [][pc = "interpreting" /\ environemnt' # environemnt
           => /\ ip <= Len(available_commands)
              /\ available_commands[ip].cls \in {"SET", "STRING"}
              /\ Len(applied') = Len(applied) + 1]_vars

\* a SET has written A into the environment and a fetch directive that reads A
\* has been reified and applied after it
C10_Witness ==
    /\ Len(applied) = 2
    /\ applied[1].cls = "SET"
    /\ applied[2].cls \in FetchDirectives
    /\ <<"A">> \in DOMAIN environemnt
    /\ environemnt[<<"A">>] = <<"x", "/", "y">>

(***************************************************************************)
(* The claims about assignments and the environment (Spec).                *)
(***************************************************************************)
\* the turn of the loop that is about to be taken applies a SET
SetTurn ==
    /\ pc = "interpreting"
    /\ ip <= Len(available_commands)
    /\ available_commands[ip].cls = "SET"

\* C11: the apply of a SET (name, value) reifies the value against the
\* environment as it is; when the result is a plain string the environment
\* gets that string under the name and nothing else changes; when the result
\* is still a pending Value the apply succeeds (the loop goes on) and the
\* environment is left as it was.
C11_SetWritesOnlyResolved ==
    [][SetTurn =>
         LET name == available_commands[ip].fields["What"].s
             to_what == ReifyIn(available_commands[ip].fields["ToWhat"].s, environemnt)
         IN /\ to_what.exc = "none" /\ to_what.v.t = "str"
                => /\ DOMAIN environemnt' = DOMAIN environemnt \cup {name}
                   /\ environemnt'[name] = to_what.v.s
                   /\ \A k \in DOMAIN environemnt \ {name} :
                          environemnt'[k] = environemnt[k]
                   /\ pc' = "interpreting" /\ ip' = ip + 1
            /\ to_what.exc = "none" /\ to_what.v.t = "Value"
                => /\ environemnt' = environemnt
                   /\ pc' = "interpreting" /\ ip' = ip + 1
            /\ environemnt' # environemnt => ~HasMarker(environemnt'[name])]_vars

\* SET(B ${A}) was applied while A was not set and left the environment alone,
\* then set(A x/y) was applied and wrote A
C11_Witness ==
    /\ pc = "returned"
    /\ Len(applied) = 2
    /\ applied[1].cls = "SET" /\ applied[2].cls = "SET"
    /\ portfile[1].args[1] = Word("B")
    /\ <<"B">> \notin DOMAIN environemnt
    /\ <<"A">> \in DOMAIN environemnt
    /\ environemnt[<<"A">>] = <<"x", "/", "y">>

\* a "${" with a "}" somewhere after it
HoldsMarker(strn) ==
    \E i \in 1..(Len(strn) - 2) :
        /\ strn[i] = "$" /\ strn[i + 1] = "{"
        /\ \E j \in (i + 2)..Len(strn) : strn[j] = "}"

\* C12: every value of the environment is a resolved string: none holds a
\* ${...} marker, in any state of a run whose environment was seeded by
\* prepopulate_environment_from_port_json.
C12_EnvironmentResolved ==
    \A k \in DOMAIN environemnt : ~HoldsMarker(environemnt[k])

(***************************************************************************)
(* The claims about the result of the driver (Spec).                       *)
(***************************************************************************)
\* the second call of the driver has ended
SecondRunEnded == run = 2 /\ pc \in {"returned", "raised"}

\* the second call ended as the first did: the same value returned or the same
\* exception raised at the same command, the same retrievals asked for, the
\* same final environment
SameAsFirst ==
    /\ pc = first.pc
    /\ error = first.error
    /\ out = first.out
    /\ fetched = first.fetched
    /\ environemnt = first.environemnt

AppliedFetches == {i \in DOMAIN applied : applied[i].cls \in FetchDirectives}

\* C14: the driver returns the collection of fetch outcomes, one for each fetch
\* directive it applied, with the final environment.  `out` is the list [] or
\* the value True: it is a collection of as many outcomes as fetch directives
\* were applied only when it is [] and none was.
C14_OneOutcomePerFetch ==
    pc = "returned" => out = "[]" /\ AppliedFetches = {}

(***************************************************************************)
(* The claims about Value.reify (SpecValue).                               *)
(***************************************************************************)
\* "$" is nowhere followed by "{"
NoInterpolationMarker(strn) ==
    \A i \in DOMAIN strn : strn[i] = "$" => i = Len(strn) \/ strn[i + 1] # "{"

InnermostAt(strn, i, j) ==
    /\ strn[j] = "}"
    /\ i + 1 < j
    /\ strn[i] = "$" /\ strn[i + 1] = "{"
    /\ \A k \in (i + 2)..(j - 1) : strn[k] # "}"
    /\ \A k \in (i + 1)..(j - 2) : ~(strn[k] = "$" /\ strn[k + 1] = "{")

NestedExample == <<"$", "{", "a", "$", "{", "b", "}", "c", "}">>
NestedContext == Context((<<"b">> :> <<"X">>) @@ (<<"a", "X", "c">> :> <<"Y">>)
                             @@ (<<"a">> :> <<"}">>))

\* C16: every turn of the loop that changes the string replaces one
\* occurrence of an innermost variable: the name looked up is the text between
\* a "${" and the first "}" that follows it, with no "${" in between, and
\* "${name}" there gives way to the value of name.  So ${a${b}c} reified in
\* {b: "X", aXc: "Y"} returns "Y".
C16_InnermostFirst ==
    /\ [][vpc = "looping" /\ reifying' # reifying
            => \E i \in DOMAIN reifying, j \in DOMAIN reifying :
                   /\ InnermostAt(reifying, i, j)
                   /\ SubSeq(reifying, i + 2, j - 1) \in DOMAIN the_context.dict
                   /\ reifying' = SubSeq(reifying, 1, i - 1)
                          \o the_context.dict[SubSeq(reifying, i + 2, j - 1)]
                          \o SubSeq(reifying, j + 1, Len(reifying))]_vars
    /\ [](vpc \in {"returned", "raised"}
              /\ self_contents = NestedExample /\ the_context = NestedContext
            => vpc = "returned" /\ value = Str(<<"Y">>))

\* ${a${b}c} has been reified to "Y"
C16_Witness ==
    /\ vpc = "returned"
    /\ self_contents = NestedExample
    /\ the_context = NestedContext
    /\ value = Str(<<"Y">>)

(***************************************************************************)
(* The claims about the fetch directives (Spec, SpecDispatch).             *)
(***************************************************************************)
\* the turn of the loop that is about to be taken reifies a GitHub directive
\* without an exception and finds REPO and REF plain strings
GithubTurn ==
    /\ pc = "interpreting"
    /\ ip <= Len(available_commands)
    /\ available_commands[ip].cls = "VCPKG_FROM_GITHUB"
    /\ ReifyInstance(available_commands[ip], environemnt).exc = "none"
    /\ ReifyInstance(available_commands[ip], environemnt).inst.fields["REPO"].t = "str"
    /\ ReifyInstance(available_commands[ip], environemnt).inst.fields["REF"].t = "str"

\* strn with "_" in the place of every "/"
Underscored(strn) == [k \in DOMAIN strn |-> IF strn[k] = "/" THEN "_" ELSE strn[k]]

\* C17: the apply of a GitHub directive whose REPO and REF are resolved
\* assigns to REF its text with "_" for every "/", and the URL it tests and
\* retrieves is https://github.com/{REPO}/archive/{REF}.tar.gz of that REF.
C17_GithubUrlOfRewrittenRef ==
    [][GithubTurn =>
         LET f == ReifyInstance(available_commands[ip], environemnt).inst.fields
             url == <<"https:", "/", "/", "github.com", "/">> \o f["REPO"].s
                        \o <<"/", "archive", "/">> \o Underscored(f["REF"].s)
                        \o <<".tar.gz">>
         IN /\ Len(applied') = Len(applied) + 1
            /\ applied'[Len(applied')].val.fields["REF"] = Str(Underscored(f["REF"].s))
            /\ IF HoldsMarker(url) /\ contains_variables(url) # "False"
               THEN fetched' = fetched /\ pc' = "raised"
               ELSE fetched' # fetched /\ fetched'[Len(fetched')].url = url]_vars

\* set(A x/y) and a GitHub directive with REPO o/r and REF ${A}: the first
\* call of the driver has retrieved https://github.com/o/r/archive/x_y.tar.gz
C17_Witness ==
    /\ run = 1
    /\ Len(applied) = 2
    /\ applied[2].cls = "VCPKG_FROM_GITHUB"
    /\ applied[2].exc = "none"
    /\ Len(fetched) = 1
    /\ fetched[1].url = <<"https:", "/", "/", "github.com", "/", "o", "/", "r", "/",
                          "archive", "/", "x", "_", "y", ".tar.gz">>

\* C18: the apply of a GitHub directive fails whenever the URL it built still
\* holds "${", closed by a brace or not: no URL that holds "${" is ever
\* handed to urlretrieve.
C18_NoRetrievalOfMarkedUrl ==
    \A i \in DOMAIN fetched : ~HasMarker(fetched[i].url)

\* the arguments of the node give the field a value: the keyword, then a token
\* that is not a keyword of the class
SuppliesValue(node, cls, field) ==
    \E k \in 1..(Len(node.args) - 1) :
        node.args[k] = Word(field) /\ ~IsFieldName(cls, node.args[k + 1])

\* the vcpkg_from_github commands that give REPO, REF and SHA512 a value
AcceptableGithubCommands(nodes) ==
    {i \in DOMAIN nodes :
        /\ nodes[i].command
        /\ Lower[nodes[i].identifier] = "vcpkg_from_github"
        /\ \A field \in {"REPO", "REF", "SHA512"} :
               SuppliesValue(nodes[i], "VCPKG_FROM_GITHUB", field)}

\* C19: every vcpkg_from_github command that gives REPO, REF and SHA512 a
\* value is made a GitHub directive by the dispatcher, whatever other fields
\* it gives: there is a GitHub instance for each such command of the pruned
\* list.
C19_RequiredFieldsSuffice ==
    pc = "converted" =>
        Cardinality({j \in DOMAIN available_commands :
                        available_commands[j].cls = "VCPKG_FROM_GITHUB"})
            >= Cardinality(AcceptableGithubCommands(prune_commands_list(portfile)))

\* C20: the apply of a SourceForge directive whose REPO is resolved, whatever
\* it holds, splits it at "/" into org and repo, builds its URL of them, ends
\* without an exception and reports no fetch.
C20_SourceforgeCompletes ==
    \A i \in DOMAIN applied :
        applied[i].cls = "VCPKG_FROM_SOURCEFORGE"
            /\ applied[i].val.fields["REPO"].t = "str"
            => /\ applied[i].exc = "none"
               /\ SubSeq(SourceforgeUrl(applied[i].val.fields), 1, 6)
                      = <<"https:", "/", "/", "sourceforge.net", "/", "projects">>
               /\ out = "[]" \/ \E j \in DOMAIN applied : applied[j].cls = "VCPKG_FROM_GITHUB"


(***************************************************************************)
(* The claims about the regular-expression match and the seeded version.   *)
(***************************************************************************)
\* the driver is about to apply a STRING of the REGEX MATCH shape whose input
\* resolves to a plain string and whose pattern, as the code searches with it
\* (backslashes removed), compiles
RegexMatchTurn ==
    /\ pc = "interpreting"
    /\ ip <= Len(available_commands)
    /\ available_commands[ip].cls = "STRING"
    /\ available_commands[ip].fields["cmd"] = Str(<<"REGEX">>)
    /\ available_commands[ip].fields["subcmd"] = Str(<<"MATCH">>)
    /\ ReifyInstance(available_commands[ip], environemnt).exc = "none"
    /\ ReifyInstance(available_commands[ip], environemnt).inst.fields["InWhat"].t = "str"
    /\ PatternCompiles(StrReplace(available_commands[ip].fields["What"].s,
                                  <<"\\">>, <<>>))

\* C21: the apply of a REGEX MATCH whose pattern matches the resolved input
\* writes each capture group i under CMAKE_MATCH_i and the whole match under
\* the output variable, and changes nothing else; when the pattern does not
\* match, the apply fails with the fatal error and the environment is as it
\* was.
C21_RegexMatchWritesGroups ==
    [][RegexMatchTurn =>
         LET f == ReifyInstance(available_commands[ip], environemnt).inst.fields
             pattern == StrReplace(f["What"].s, <<"\\">>, <<>>)
             whole == PatternText(pattern)
             groups == GroupTexts(pattern)
             names == {MatchName(n) : n \in DOMAIN groups}
             matches == whole = <<>> \/ FindFirst(f["InWhat"].s, whole) # 0
         IN IF matches
            THEN /\ DOMAIN environemnt' =
                        DOMAIN environemnt \cup names \cup {f["ToWhat"].s}
                 /\ environemnt'[f["ToWhat"].s] = whole
                 /\ \A n \in DOMAIN groups :
                        MatchName(n) # f["ToWhat"].s
                            => environemnt'[MatchName(n)] = groups[n]
                 /\ \A k \in DOMAIN environemnt \ (names \cup {f["ToWhat"].s}) :
                        environemnt'[k] = environemnt[k]
                 /\ pc' = "interpreting" /\ ip' = ip + 1
            ELSE /\ pc' = "raised"
                 /\ error'.exc = "ValueError" /\ error'.at = "apply"
                 /\ environemnt' = environemnt]_vars

\* set(A x/y) then string(REGEX MATCH "(x)/" M ${A}): the driver returned
\* with CMAKE_MATCH_1 = x and M = x/
C21_Witness ==
    /\ pc = "returned"
    /\ run = 1
    /\ Len(applied) = 2
    /\ applied[2].cls = "STRING"
    /\ applied[2].val.fields["What"] = Str(<<"(", "x", ")", "/">>)
    /\ <<"CMAKE_MATCH_1">> \in DOMAIN environemnt
    /\ environemnt[<<"CMAKE_MATCH_1">>] = <<"x">>
    /\ <<"M">> \in DOMAIN environemnt
    /\ environemnt[<<"M">>] = <<"x", "/">>


\* the environment has just been seeded and no command applied yet
JustSeeded == pc = "interpreting" /\ ip = 1

\* C22: the seeded VERSION is the value of the first key the manifest has, in
\* the order version, version-string, version-semver, version-date, and the
\* no-version sentinel when the manifest has none of them.
C22_VersionByPriority ==
    JustSeeded =>
        LET data == port_json.data
        IN environemnt[<<"VERSION">>] =
               IF <<"version">> \in DOMAIN data THEN data[<<"version">>]
               ELSE IF <<"version-string">> \in DOMAIN data
               THEN data[<<"version-string">>]
               ELSE IF <<"version-semver">> \in DOMAIN data
               THEN data[<<"version-semver">>]
               ELSE IF <<"version-date">> \in DOMAIN data THEN data[<<"version-date">>]
               ELSE <<"THIS-IS-NOT-A-VERSION!">>

\* a manifest with version-string 1, version-semver 2 and version-date 2 and
\* no version key: VERSION was seeded as 1
C22_Witness ==
    /\ JustSeeded
    /\ DOMAIN port_json.data = {<<"version-string">>, <<"version-semver">>,
                                <<"version-date">>}
    /\ port_json.data[<<"version-string">>] = <<"1">>
    /\ port_json.data[<<"version-semver">>] = <<"2">>
    /\ port_json.data[<<"version-date">>] = <<"2">>
    /\ environemnt[<<"VERSION">>] = <<"1">>

\* C23, as claimed: seeding the environment for a package whose manifest file
\* is missing does not fail, and VERSION is seeded as the no-version sentinel.
C23_MissingManifestSeedsSentinel ==
    [][pc = "converted" /\ ~port_json'.exists
           => /\ pc' = "interpreting"
              /\ environemnt'[<<"VERSION">>] = <<"THIS-IS-NOT-A-VERSION!">>]_vars


(***************************************************************************)
(* The claim about the order of interpretation.                            *)
(***************************************************************************)
\* the environment the first k commands produce from the seeded one, each
\* reified and applied against what the commands before it produced
RECURSIVE EnvironmentAfter(_)
EnvironmentAfter(k) ==
    IF k = 0 THEN prepopulate_environment_from_port_json(portname, port_json.data)
    ELSE LET turn(before) ==
                 do_special_magic(ReifyInstance(available_commands[k], before).inst,
                                  before).env
         IN turn(EnvironmentAfter(k - 1))

\* the loop of the driver has been entered
InLoop ==
    \/ pc \in {"interpreting", "returned"}
    \/ pc = "raised" /\ error.at \in {"reify", "apply"}

InnermostAbsent ==
    /\ vpc = "looping"
    /\ HasMarker(reifying)
    /\ first_innermost_variable(reifying).exc = "none"
    /\ first_innermost_variable(reifying).val \notin DOMAIN the_context.dict

\* C25, as claimed: when the innermost variable name is absent from the
\* environment, reification stops and returns the original value, wrapped as
\* a Value.
C25_AbsentReturnsOriginal ==
    [][InnermostAbsent => vpc' = "returned" /\ value' = Val(self_contents)]_vars

\* C25, amended: when the innermost variable name is absent from the
\* environment, the string is left as it stands at that iteration and
\* reification stops, returning that string wrapped as a Value, never a plain
\* string; it is the original value when no earlier iteration substituted.
C25_AbsentReturnsCurrent ==
    [][InnermostAbsent =>
           /\ vpc' = "returned"
           /\ reifying' = reifying
           /\ value' = Val(reifying)
           /\ value'.t # "str"]_vars

\* ${a}${b} with a set to X and b not set: X${b} was returned as a Value
C25_Witness ==
    /\ vpc = "returned"
    /\ self_contents = <<"$", "{", "a", "}", "$", "{", "b", "}">>
    /\ the_context.given
    /\ <<"b">> \notin DOMAIN the_context.dict
    /\ value = Val(<<"X", "$", "{", "b", "}">>)

\* C26, as claimed: every call of Value.reify ends, whatever the string and
\* the environment.
C26_ReifyTerminates == <>(vpc \in {"returned", "raised"})


(***************************************************************************)
(* The claims about the checkers of curly brackets.                        *)
(***************************************************************************)
\* the running balance after strn, starting from `balance`: one more for each
\* "${", one less for each "}" met while the balance is positive
RECURSIVE RunningBalance(_, _)
RunningBalance(strn, balance) ==
    IF strn = <<>> THEN balance
    ELSE IF Len(strn) >= 2 /\ strn[1] = "$" /\ strn[2] = "{"
    THEN RunningBalance(Tail(strn), balance + 1)
    ELSE IF strn[1] = "}" /\ balance > 0
    THEN RunningBalance(Tail(strn), balance - 1)
    ELSE RunningBalance(Tail(strn), balance)

\* C27, as claimed: for every string the well-formedness check returns,
\* without raising, true exactly when the running balance ends at zero.
C27_WellFormedIffBalanceZero ==
    well_formed # "none" =>
        well_formed = IF RunningBalance(checked_strn, 0) = 0 THEN "True" ELSE "False"

\* every "${" of strn can be given a "}" of its own that comes after it
EveryMarkerClosed(strn) ==
    LET opens == {i \in 1..(Len(strn) - 1) : strn[i] = "$" /\ strn[i + 1] = "{"}
        closes == {j \in DOMAIN strn : strn[j] = "}"}
    IN \E m \in [opens -> closes] :
           /\ \A i \in opens : m[i] > i
           /\ \A i, k \in opens : i # k => m[i] # m[k]

\* what the examples of the claim say of the counting checker
BalancedExamples ==
    balanced # "none" =>
        /\ checked_strn = <<"$", "{", "}">> => balanced = "True"
        /\ checked_strn = <<"$", "{", "}", "$", "{", "}">> => balanced = "True"
        /\ checked_strn = <<"$", "{", "}", "}">> => balanced = "False"

\* C28, as claimed: the balance checker reports ${} and ${}${} balanced and
\* ${}} not balanced, and never reports well-formed a string in which some
\* "${" has no matching later "}".
C28_BalanceCheckerSound ==
    /\ BalancedExamples
    /\ balanced = "True" => EveryMarkerClosed(checked_strn)

\* C28, amended: cbrackets_are_balanced_in, which only counts the brackets,
\* reports ${} and ${}${} balanced and ${}} not balanced;
\* scbrackets_sequence_is_correct_in never reports well-formed a string in
\* which some "${" has no matching later "}".
C28_CountingAndSequenceCheckers ==
    /\ BalancedExamples
    /\ well_formed = "True" => EveryMarkerClosed(checked_strn)

\* both checkers were called on ${}${}: balanced and well-formed
C28_Witness ==
    /\ checked_strn = <<"$", "{", "}", "$", "{", "}">>
    /\ balanced = "True"
    /\ well_formed = "True"


(***************************************************************************)
(* The claim about the construction of string transforms.                  *)
(***************************************************************************)
\* C29, as claimed: constructing a string transform from a command never
\* raises: five tokens make the SUBSTRING, the REPLACE or else the REGEX MATCH
\* shape, six tokens with REPLACE as sub-operation the REGEX REPLACE shape,
\* and every other shape the sentinel instance.
C29_StringConstructionTotal ==
    pc # "start" =>
        \A i \in DOMAIN portfile :
            portfile[i].command /\ Lower[portfile[i].identifier] = "string" =>
                LET args == portfile[i].args
                    r == from_command("STRING", portfile[i])
                IN /\ r.exc = "none"
                   /\ Len(args) = 5 /\ args[1] \notin {<<"SUBSTRING">>, <<"REPLACE">>}
                          => /\ r.inst.fields["subcmd"] = Str(args[2])
                             /\ r.inst.fields["What"] = Str(args[3])
                             /\ r.inst.fields["ToWhat"] = Str(args[4])
                   /\ Len(args) = 6 /\ args[2] = <<"REPLACE">>
                          => /\ r.inst.fields["subcmd"] = Str(args[2])
                             /\ r.inst.fields["What"] = Str(args[3])
                   /\ Len(args) # 5 /\ ~(Len(args) = 6 /\ args[2] = <<"REPLACE">>)
                          => /\ r.inst.fields["subcmd"] = Str(<<"MISSING">>)
                             /\ r.inst.fields["What"] = Str(<<"IGNORED">>)

(***************************************************************************)
(* The claim about the reification of strings with stray brackets.         *)
(***************************************************************************)
\* the names between a "${" of strn and the first "}" after it
MarkerNames(strn) ==
    {SubSeq(strn, i + 2, j - 1) :
        <<i, j>> \in {ij \in (DOMAIN strn) \X (DOMAIN strn) :
                         InnermostAt(strn, ij[1], ij[2])}}

\* no marker of strn lies within another: between a "${" and the first "}"
\* after it there is no other "${"
FlatMarkers(strn) ==
    \A i \in 1..(Len(strn) - 1) :
        strn[i] = "$" /\ strn[i + 1] = "{"
            => \E j \in DOMAIN strn : InnermostAt(strn, i, j)

\* C30, as claimed: for a well-formed string and an environment that defines
\* every name the string refers to with values free of markers, Value.reify
\* returns a plain string without "${", wherever stray brackets occur.  The
\* statement is made for the strings whose markers are not nested and the
\* values without brackets.
C30_ResolvesDespiteStrayBrackets ==
    /\ vpc = "returned"
    /\ the_context.given
    /\ contains_variables(self_contents) = "True"
    /\ FlatMarkers(self_contents)
    /\ \A name \in MarkerNames(self_contents) :
           /\ name \in DOMAIN the_context.dict
           /\ \A k \in DOMAIN the_context.dict[name] :
                  the_context.dict[name][k] \notin {"$", "{", "}"}
    => value.t = "str" /\ ~HasMarker(value.s)

====
